---- MODULE Spec2Model ----
(***************************************************************************)
(* Model of the offline DJ mix engine: dj_mix.py (strategy selection and   *)
(* dispatch), many_transitions.py (Camelot model, tight / loose builder)   *)
(* and loop_mix.py (loop builder).                                         *)
(*                                                                         *)
(* Units.  A BPM is a float rounded to two decimals (get_bpm.py:62); it is *)
(* modelled by the integer number of hundredths ("centi-BPM"), so 128.0    *)
(* BPM is 12800 and the threshold 5 is 500.                                *)
(***************************************************************************)
EXTENDS Integers, Sequences, FiniteSets, TLC

VARIABLES
    \* ---- the call and its environment
    entry,     \* function called: "dj_mix", "make_transition", "build_loop_mix"
    pc,        \* position of the running call
    err,       \* kind of the exception that ended the call, or "none"
    ret,       \* path returned by the entry function, or "none"
    calls,     \* builders invoked by dj_mix, in order
    disk,      \* files under output_dir written so far
    \* ---- analyser results (pure functions of the two tracks)
    bpm1,      \* get_bpm(song1_path), centi-BPM
    bpm2,      \* get_bpm(song2_path), centi-BPM
    ess1,      \* Essentia KeyExtractor output for song 1: <<key_name, scale>>
    ess2,      \* Essentia KeyExtractor output for song 2
    trk1,      \* song 1: section layout, length and sample rate
    trk2,      \* song 2
    \* ---- dj_mix locals
    key1,      \* Camelot position of song 1 once analysed
    key2,      \* Camelot position of song 2
    key_ok,    \* keys_compatible(key1, key2)
    mode,      \* "loop" | "tight" | "loose"
    trans_sec, \* transition timestamp for the file name, seconds
    \* ---- builder locals (make_transition / build_loop_mix)
    bl,        \* record of the running builder's locals
    \* ---- outside the call
    cli,       \* what the dj_mix command line did once dj_mix ended
    \* ---- mixes running side by side (two command lines, the job server)
    jobs,      \* job id -> that mix's configuration, position and history
    fs         \* stem files under the output directories: path -> state

inputs == <<entry, bpm1, bpm2, ess1, ess2, trk1, trk2>>
djvars == <<key1, key2, key_ok, mode, trans_sec>>
outer == <<cli, jobs, fs>>
vars == <<entry, pc, err, ret, calls, disk, bpm1, bpm2, ess1, ess2, trk1, trk2,
          key1, key2, key_ok, mode, trans_sec, bl, cli, jobs, fs>>

-----------------------------------------------------------------------------
(* Camelot model: many_transitions.py                                      *)

Abs(x) == IF x < 0 THEN -x ELSE x

(* Seconds, BPM ratios and stretch rates are Python floats; they are        *)
(* modelled as exact fractions <<numerator, denominator>> in lowest terms.  *)
RECURSIVE GCD(_, _)
GCD(a, b) == IF b = 0 THEN a ELSE GCD(b, a % b)

Rat(n, d) == LET g == GCD(Abs(n), d) IN <<n \div g, d \div g>>
RInt(k) == <<k, 1>>
Zero == RInt(0)
RMul(x, y) == Rat(x[1] * y[1], x[2] * y[2])
RDiv(x, y) == Rat(x[1] * y[2], x[2] * y[1])
RAdd(x, y) == Rat(x[1] * y[2] + y[1] * x[2], x[2] * y[2])
RSub(x, y) == Rat(x[1] * y[2] - y[1] * x[2], x[2] * y[2])
RLt(x, y) == x[1] * y[2] < y[1] * x[2]
RLe(x, y) == x[1] * y[2] <= y[1] * x[2]

\* int(x) for x >= 0, math.ceil(x), and Python's round(x) (half to even)
Floor(x) == x[1] \div x[2]
Ceil(x) == -((-x[1]) \div x[2])
PyRound(x) ==
    LET f == Floor(x)
        twice == 2 * (x[1] - f * x[2])
    IN  IF twice < x[2] THEN f
        ELSE IF twice > x[2] THEN f + 1
        ELSE IF f % 2 = 0 THEN f ELSE f + 1

BPM_TIGHT_THRESHOLD == 5

\* Imported by dj_mix.py:32 from many_transitions, which does not define it;
\* the value is the one the dj_mix docstring and the specification give.
BPM_LOOSE_THRESHOLD == 15

ENHARMONICS ==
    [Db |-> "C#", Eb |-> "D#", Fb |-> "E", Gb |-> "F#",
     Ab |-> "G#", Bb |-> "A#", Cb |-> "B"]

CAMELOT ==
       (<<"B",  "major">> :> <<1,  "B">>)
    @@ (<<"F#", "major">> :> <<2,  "B">>)
    @@ (<<"C#", "major">> :> <<3,  "B">>)
    @@ (<<"G#", "major">> :> <<4,  "B">>)
    @@ (<<"D#", "major">> :> <<5,  "B">>)
    @@ (<<"A#", "major">> :> <<6,  "B">>)
    @@ (<<"F",  "major">> :> <<7,  "B">>)
    @@ (<<"C",  "major">> :> <<8,  "B">>)
    @@ (<<"G",  "major">> :> <<9,  "B">>)
    @@ (<<"D",  "major">> :> <<10, "B">>)
    @@ (<<"A",  "major">> :> <<11, "B">>)
    @@ (<<"E",  "major">> :> <<12, "B">>)
    @@ (<<"G#", "minor">> :> <<1,  "A">>)
    @@ (<<"D#", "minor">> :> <<2,  "A">>)
    @@ (<<"A#", "minor">> :> <<3,  "A">>)
    @@ (<<"F",  "minor">> :> <<4,  "A">>)
    @@ (<<"C",  "minor">> :> <<5,  "A">>)
    @@ (<<"G",  "minor">> :> <<6,  "A">>)
    @@ (<<"D",  "minor">> :> <<7,  "A">>)
    @@ (<<"A",  "minor">> :> <<8,  "A">>)
    @@ (<<"E",  "minor">> :> <<9,  "A">>)
    @@ (<<"B",  "minor">> :> <<10, "A">>)
    @@ (<<"F#", "minor">> :> <<11, "A">>)
    @@ (<<"C#", "minor">> :> <<12, "A">>)

\* "camelot is None": no Camelot position.
NoKey == <<0, "none">>

\* key_name = _ENHARMONICS.get(key_name, key_name)
NormaliseDropsFlats(key_name) == key_name

Normalise(key_name) ==
    IF key_name \in DOMAIN ENHARMONICS THEN ENHARMONICS[key_name] ELSE key_name

\* _CAMELOT.get((key_name, scale)) after normalisation; NoKey stands for the
\* None that makes get_key raise ValueError.
get_key(e) ==
    LET k == <<Normalise(e[1]), e[2]>>
    IN  IF k \in DOMAIN CAMELOT THEN CAMELOT[k] ELSE NoKey

keys_compatible_no_wrap(c1, c2) ==
    LET n1 == c1[1]  l1 == c1[2]  n2 == c2[1]  l2 == c2[2]
    IN  IF n1 = n2 /\ l1 = l2 THEN TRUE
        ELSE IF l1 = l2 /\ Abs(n1 - n2) = 1 THEN TRUE
        ELSE IF n1 = n2 /\ l1 # l2 THEN TRUE
        ELSE FALSE

keys_compatible(c1, c2) ==
    LET n1 == c1[1]  l1 == c1[2]  n2 == c2[1]  l2 == c2[2]
    IN  IF n1 = n2 /\ l1 = l2 THEN TRUE                        \* rule 1
        ELSE IF l1 = l2 /\ (Abs(n1 - n2) = 1 \/ Abs(n1 - n2) = 11)
             THEN TRUE                                         \* rule 2
        ELSE IF n1 = n2 /\ l1 # l2 THEN TRUE                   \* rule 3
        ELSE FALSE

-----------------------------------------------------------------------------
(* Strategy selection: dj_mix.py                                           *)

bpm_diff(b1, b2) == Abs(b1 - b2)

\* dj_mix.py:127-135, on centi-BPM
pick_mode_tight_needs_key(diff, kok) ==
    IF diff <= 10 * 100 /\ kok THEN "loop"
    ELSE IF diff <= BPM_TIGHT_THRESHOLD * 100 /\ kok THEN "tight"
    ELSE "loose"

pick_mode(diff, kok) ==
    LET bpm_loop       == diff <= 10 * 100
        bpm_ok         == diff <= BPM_TIGHT_THRESHOLD * 100
        bpm_loose      == diff <= BPM_LOOSE_THRESHOLD * 100
        loop_eligible  == bpm_loop /\ kok
        tight_eligible == bpm_ok \/ (kok /\ bpm_loose)
    IN  IF loop_eligible THEN "loop"
        ELSE IF tight_eligible THEN "tight"
        ELSE "loose"


\* dj_mix.py:149-152: the builder dj_mix calls for a mode
builder_always_transition(m) == "make_transition"

builder_for(m) == IF m = "loop" THEN "build_loop_mix" ELSE "make_transition"

-----------------------------------------------------------------------------
(* Section analysers: sections/get_chorus.py, sections/get_verse.py.       *)
(* A track is [chorus, chorusBars, verseSegs, intro, gap, lenBars, sr]:    *)
(* whether the chorus mask holds a run, that run's length in bars, the     *)
(* number of verse runs the grouping loop found, the bars before the first *)
(* verse run, the bars between the end of chorus 1 and the second verse    *)
(* run, the length of the audio in bars, and the file's sample rate.  The  *)
(* first verse run ends at bar 8, where chorus 1 starts; later runs are 8  *)
(* bars long.                                                              *)

\* bar_duration = 4.0 * (60.0 / bpm), seconds
bar_duration(bpm) == Rat(4 * 60 * 100, bpm)

\* get_chorus.py:135-138: (s * bar_duration, (e + 1) * bar_duration)
find_chorus(trk, bpm) ==
    IF trk.chorus
    THEN << <<RMul(RInt(8), bar_duration(bpm)),
              RMul(RInt(8 + trk.chorusBars), bar_duration(bpm))>> >>
    ELSE << >>

\* first bar of the k-th verse run
VerseStartBar(trk, k) ==
    IF k = 1 THEN trk.intro ELSE 8 + trk.chorusBars + trk.gap + (k - 2) * 9

\* bar after the last bar of the k-th verse run
VerseEndBar(trk, k) == IF k = 1 THEN 8 ELSE VerseStartBar(trk, k) + 8

\* get_verse.py:94-98, 164-174: no chorus, or fewer than two runs, gives []
find_verse_keeps_single(trk, bpm) ==
    IF ~trk.chorus THEN << >>
    ELSE [k \in 1..trk.verseSegs |->
            <<RMul(RInt(VerseStartBar(trk, k)), bar_duration(bpm)),
              RMul(RInt(VerseEndBar(trk, k)), bar_duration(bpm))>>]

find_verse(trk, bpm) ==
    IF ~trk.chorus \/ trk.verseSegs < 2 THEN << >>
    ELSE [k \in 1..trk.verseSegs |->
            <<RMul(RInt(VerseStartBar(trk, k)), bar_duration(bpm)),
              RMul(RInt(VerseEndBar(trk, k)), bar_duration(bpm))>>]

\* get_chorus.py:116, get_verse.py:148: the shortest run that counts
min_chorus_bars == 4
min_verse_bars == 4

\* get_chorus.py:61, get_verse.py:70: fewer whole bars raise ValueError
min_analysable_bars == 4

\* get_chorus.py:129-130, get_verse.py:161-162: after the loop, the run that
\* is still open at the last bar
close_open_run_never(n_bars, min_bars, in_seg, seg_start, segments) ==
    segments

close_open_run(n_bars, min_bars, in_seg, seg_start, segments) ==
    IF in_seg /\ n_bars - seg_start >= min_bars
    THEN Append(segments, <<seg_start, n_bars - 1>>)
    ELSE segments

\* get_chorus.py:118-130, get_verse.py:150-162: the grouping loop from bar i
\* (bars count from 0; mask[i + 1] is the flag of bar i)
RECURSIVE group_bars(_, _, _, _, _, _)
group_bars(mask, min_bars, i, in_seg, seg_start, segments) ==
    IF i >= Len(mask)
    THEN close_open_run(Len(mask), min_bars, in_seg, seg_start, segments)
    ELSE IF mask[i + 1] /\ ~in_seg
    THEN group_bars(mask, min_bars, i + 1, TRUE, i, segments)
    ELSE IF ~mask[i + 1] /\ in_seg
    THEN group_bars(mask, min_bars, i + 1, FALSE, seg_start,
                    IF i - seg_start >= min_bars
                    THEN Append(segments, <<seg_start, i - 1>>)
                    ELSE segments)
    ELSE group_bars(mask, min_bars, i + 1, in_seg, seg_start, segments)

\* get_chorus.py:135-138, get_verse.py:171-174
bar_timestamps(segments, bar_dur) ==
    [k \in 1..Len(segments) |->
        <<RMul(RInt(segments[k][1]), bar_dur),
          RMul(RInt(segments[k][2] + 1), bar_dur)>>]

\* get_chorus.py:116-150 on a chorus mask
chorus_timestamps(chorus_mask, bar_dur) ==
    bar_timestamps(group_bars(chorus_mask, min_chorus_bars, 0, FALSE, 0, << >>),
                   bar_dur)

\* get_verse.py:148-185 on a verse mask
verse_timestamps(verse_mask, bar_dur) ==
    LET segments == group_bars(verse_mask, min_verse_bars, 0, FALSE, 0, << >>)
    IN  IF Len(segments) < 2 THEN << >>
        ELSE bar_timestamps(segments, bar_dur)

-----------------------------------------------------------------------------
(* Audio helpers: many_transitions.py:159-215.  A stem is [n, tempo, sr]:  *)
(* its length in samples, the tempo its content plays at (centi-BPM, a     *)
(* fraction) and its sample rate.                                          *)

_snap_to_phrase(start_sec, phrase_sec) ==
    RMul(RInt(Ceil(RDiv(start_sec, phrase_sec))), phrase_sec)

_sec_to_samp(sec, sr) == PyRound(RMul(sec, RInt(sr)))

\* librosa.load / _split_stems: the decoded track, before any processing
load_stem(trk, bpm) ==
    [n     |-> _sec_to_samp(RMul(RInt(trk.lenBars), bar_duration(bpm)), trk.sr),
     tempo |-> RInt(bpm),
     sr    |-> trk.sr]

\* librosa.effects.time_stretch: len_stretch = int(round(n / rate))
_stretch_stem(stem, rate) ==
    IF rate = RInt(1) THEN stem
    ELSE [stem EXCEPT !.n = PyRound(RDiv(RInt(stem.n), rate)),
                      !.tempo = RMul(stem.tempo, rate)]

\* librosa.resample: n_samples = ceil(n * sr_to / sr_from)
_resample_stems(stem, sr_from, sr_to) ==
    IF sr_from = sr_to THEN stem
    ELSE [stem EXCEPT !.n = Ceil(Rat(stem.n * sr_to, sr_from)), !.sr = sr_to]

-----------------------------------------------------------------------------
(* make_transition: many_transitions.py:362-616                            *)

\* :403-405
mt_tight_bpm_only(b1, b2, k1, k2) ==
    bpm_diff(b1, b2) <= BPM_TIGHT_THRESHOLD * 100

mt_tight(b1, b2, k1, k2) ==
    /\ bpm_diff(b1, b2) <= BPM_TIGHT_THRESHOLD * 100
    /\ keys_compatible(k1, k2)

\* :421-436, the first failing prerequisite or "none"
mt_prerequisite_no_verse2_check(chorus1_ts, chorus2_ts, verse1_ts, verse2_ts, tight) ==
    IF chorus1_ts = << >> THEN "Song 1: no chorus"
    ELSE IF chorus2_ts = << >> THEN "Song 2: no chorus"
    ELSE IF verse1_ts = << >> THEN "Song 1: no verse"
    ELSE IF ~tight /\ Len(verse1_ts) < 2 THEN "Song 1: loose needs 2 verses"
    ELSE "none"

mt_prerequisite(chorus1_ts, chorus2_ts, verse1_ts, verse2_ts, tight) ==
    IF chorus1_ts = << >> THEN "Song 1: no chorus"
    ELSE IF chorus2_ts = << >> THEN "Song 2: no chorus"
    ELSE IF verse1_ts = << >> THEN "Song 1: no verse"
    ELSE IF ~tight /\ Len(verse1_ts) < 2 THEN "Song 1: loose needs 2 verses"
    ELSE IF Len(verse2_ts) < 2 THEN "Song 2: need 2 verses"
    ELSE "none"

\* :445-446: the phrase is 8 bars of song 1; the variant before it takes
\* the grid of the faster track
mt_phrase_duration_faster(b1, b2) ==
    RMul(RInt(8), bar_duration(IF b1 >= b2 THEN b1 ELSE b2))

mt_phrase_duration(b1, b2) == RMul(RInt(8), bar_duration(b1))

\* :448-466
mt_geometry_three_phrases(tight, s1_c1, verse1_ts, phrase_duration) ==
    IF tight
    THEN LET chorus_duration  == RSub(s1_c1[2], s1_c1[1])
             n_chorus_phrases == Floor(RDiv(chorus_duration, phrase_duration))
         IN  IF n_chorus_phrases >= 3
             THEN [transition_start_sec |->
                       RAdd(s1_c1[1],
                            RMul(RInt(n_chorus_phrases - 2), phrase_duration)),
                   use_fallback |-> FALSE, phrases_needed |-> 1]
             ELSE [transition_start_sec |-> s1_c1[2],
                   use_fallback |-> TRUE, phrases_needed |-> 1]
    ELSE [transition_start_sec |->
              _snap_to_phrase(verse1_ts[2][1], phrase_duration),
          use_fallback |-> FALSE, phrases_needed |-> 2]

mt_geometry(tight, s1_c1, verse1_ts, phrase_duration) ==
    IF tight
    THEN LET chorus_duration  == RSub(s1_c1[2], s1_c1[1])
             n_chorus_phrases == Floor(RDiv(chorus_duration, phrase_duration))
         IN  IF n_chorus_phrases >= 2
             THEN [transition_start_sec |->
                       RAdd(s1_c1[1],
                            RMul(RInt(n_chorus_phrases - 2), phrase_duration)),
                   use_fallback |-> FALSE, phrases_needed |-> 1]
             ELSE [transition_start_sec |-> s1_c1[2],
                   use_fallback |-> TRUE, phrases_needed |-> 1]
    ELSE [transition_start_sec |->
              _snap_to_phrase(verse1_ts[2][1], phrase_duration),
          use_fallback |-> FALSE, phrases_needed |-> 2]

\* :501-505 (and loop_mix.py:507-511)
stretch_rate_both_ways(b1, b2) == Rat(b1, b2)

stretch_rate_of(b1, b2) == IF b2 < b1 THEN Rat(b1, b2) ELSE RInt(1)

\* :532-544
mt_guard_song1_only(low1_n, low2_n, req_s1, req_s2) ==
    IF low1_n < req_s1 THEN "Song 1 stems too short"
    ELSE "none"

mt_guard(low1_n, low2_n, req_s1, req_s2) ==
    IF low1_n < req_s1 THEN "Song 1 stems too short"
    ELSE IF low2_n < req_s2 THEN "Song 2 stems too short"
    ELSE "none"

\* numpy basic slicing x[:, a:b] of an array of n samples, 0 <= a, 0 <= b:
\* both ends are clipped to n and an inverted range is empty
SliceLenSigned(n, a, b) == b - a

SliceLen(n, a, b) ==
    LET lo == IF a < n THEN a ELSE n
        hi == IF b < n THEN b ELSE n
    IN  IF hi > lo THEN hi - lo ELSE 0

\* np.concatenate([...], axis=1): the lengths add up
MixLen(pieces) ==
    pieces.s1_pre + pieces.phase_a + pieces.phase_b + pieces.s2_after

\* :228-263, lengths of the pieces it concatenates
_build_tight_transition(y1_n, low1_n, low2_n, s1_v1_start, trans_start, s2_start, phrase_samples, s2_end_sample) ==
    [s1_pre   |-> SliceLen(y1_n, s1_v1_start, trans_start),
     phase_a  |-> SliceLen(low1_n, trans_start, trans_start + phrase_samples),
     phase_b  |-> 0,
     s2_after |-> SliceLen(low2_n, s2_start + phrase_samples, s2_end_sample)]

\* :266-304
_build_tight_fallback(y1_n, low1_n, low2_n, s1_v1_start, trans_start, s2_start, phrase_samples, s2_end_sample) ==
    [s1_pre   |-> SliceLen(y1_n, s1_v1_start, trans_start),
     phase_a  |-> SliceLen(low1_n, trans_start, trans_start + phrase_samples),
     phase_b  |-> 0,
     s2_after |-> SliceLen(low2_n, s2_start + phrase_samples, s2_end_sample)]

\* :307-355
_build_loose_transition(y1_n, low1_n, low2_n, s1_v1_start, trans_start, s2_start, phrase_samples, s2_end_sample) ==
    [s1_pre   |-> SliceLen(y1_n, s1_v1_start, trans_start),
     phase_a  |-> SliceLen(low1_n, trans_start, trans_start + phrase_samples),
     phase_b  |-> SliceLen(low1_n, trans_start + phrase_samples,
                           trans_start + 2 * phrase_samples),
     s2_after |-> SliceLen(low2_n, s2_start + 2 * phrase_samples, s2_end_sample)]

\* numpy basic slicing x[:, a:b] of an array of n samples: the index range
\* <<first, one past the last>> the slice reads, empty when the two are equal
SliceRange(n, a, b) ==
    LET lo == IF a < n THEN a ELSE n
        hi == IF b < n THEN b ELSE n
    IN  IF hi > lo THEN <<lo, hi>> ELSE <<lo, lo>>

\* :248-263, :289-304, :328-355: the index ranges of track A (y1, then the
\* stems of song 1) and of track B (the stems of song 2) that the pieces of
\* np.concatenate([s1_pre, phase_a, (phase_b,) s2_after]) read, in order
builder_reads_tail_after_one_phrase(builder, y1_n, low1_n, low2_n, s1_v1_start, trans_start, s2_start, phrase_samples, s2_end_sample) ==
    LET s1_pre == SliceRange(y1_n, s1_v1_start, trans_start)
        a_s1   == SliceRange(low1_n, trans_start, trans_start + phrase_samples)
        a_s2   == SliceRange(low2_n, s2_start, s2_start + phrase_samples)
        phB_s1 == trans_start + phrase_samples
        phB_s2 == s2_start + phrase_samples
        b_s1   == SliceRange(low1_n, phB_s1, phB_s1 + phrase_samples)
        b_s2   == SliceRange(low2_n, phB_s2, phB_s2 + phrase_samples)
    IN  IF builder = "_build_loose_transition"
        THEN [a |-> <<s1_pre, a_s1, b_s1>>,
              b |-> <<a_s2, b_s2,
                      SliceRange(low2_n, s2_start + phrase_samples,
                                 s2_end_sample)>>]
        ELSE [a |-> <<s1_pre, a_s1>>,
              b |-> <<a_s2,
                      SliceRange(low2_n, s2_start + phrase_samples,
                                 s2_end_sample)>>]

builder_reads(builder, y1_n, low1_n, low2_n, s1_v1_start, trans_start, s2_start, phrase_samples, s2_end_sample) ==
    LET s1_pre == SliceRange(y1_n, s1_v1_start, trans_start)
        a_s1   == SliceRange(low1_n, trans_start, trans_start + phrase_samples)
        a_s2   == SliceRange(low2_n, s2_start, s2_start + phrase_samples)
        phB_s1 == trans_start + phrase_samples
        phB_s2 == s2_start + phrase_samples
        b_s1   == SliceRange(low1_n, phB_s1, phB_s1 + phrase_samples)
        b_s2   == SliceRange(low2_n, phB_s2, phB_s2 + phrase_samples)
    IN  IF builder = "_build_loose_transition"
        THEN [a |-> <<s1_pre, a_s1, b_s1>>,
              b |-> <<a_s2, b_s2,
                      SliceRange(low2_n, s2_start + 2 * phrase_samples,
                                 s2_end_sample)>>]
        ELSE [a |-> <<s1_pre, a_s1>>,
              b |-> <<a_s2,
                      SliceRange(low2_n, s2_start + phrase_samples,
                                 s2_end_sample)>>]

\* :560-565
mt_builder(tight, use_fallback) ==
    IF tight /\ use_fallback THEN "_build_tight_fallback"
    ELSE IF tight THEN "_build_tight_transition"
    ELSE "_build_loose_transition"

\* np.linspace(start, stop, num)[i]: start + i * (stop - start) / (num - 1),
\* and [start] when num = 1
linspace_no_endpoint(start, stop, num, i) ==
    RAdd(RInt(start), Rat(i * (stop - start), num))

linspace(start, stop, num, i) ==
    IF num = 1 THEN RInt(start)
    ELSE RAdd(RInt(start), Rat(i * (stop - start), num - 1))

\* :245-258, :286-299, :325-338: the gain Phase A applies to each stem of
\* each song at sample t of the phrase
phase_a_gains(builder, t, phrase_samples) ==
    LET fade_out == linspace(1, 0, phrase_samples, t)
        fade_in  == linspace(0, 1, phrase_samples, t)
    IN  IF builder = "_build_tight_fallback"
        THEN [low1 |-> fade_out, mid1 |-> Zero, high1 |-> Zero,
              low2 |-> Zero, mid2 |-> fade_in, high2 |-> fade_in]
        ELSE [low1 |-> fade_out, mid1 |-> RInt(1), high1 |-> RInt(1),
              low2 |-> fade_in, mid2 |-> Zero, high2 |-> Zero]

\* :340-349: the gain Phase B of the loose builder applies at sample t
phase_b_gains_restart(t, phrase_samples) ==
    LET fade_out == linspace(1, 0, phrase_samples, t)
        fade_in  == linspace(0, 1, phrase_samples, t)
    IN  [low1 |-> Zero, mid1 |-> fade_out, high1 |-> fade_out,
         low2 |-> fade_in, mid2 |-> fade_in, high2 |-> fade_in]

phase_b_gains(t, phrase_samples) ==
    LET fade_out == linspace(1, 0, phrase_samples, t)
        fade_in  == linspace(0, 1, phrase_samples, t)
    IN  [low1 |-> Zero, mid1 |-> fade_out, high1 |-> fade_out,
         low2 |-> RInt(1), mid2 |-> fade_in, high2 |-> fade_in]

\* the gains of the six stems at one position of the concatenated mix
\* (:248-263, :289-304, :328-355): s1_pre is track A as loaded, s2_after is
\* low2 + mid2 + high2
play_gains(builder, phase, t, phrase_samples) ==
    CASE phase = "pre"  -> [low1 |-> RInt(1), mid1 |-> RInt(1), high1 |-> RInt(1),
                            low2 |-> Zero, mid2 |-> Zero, high2 |-> Zero]
      [] phase = "A"    -> phase_a_gains(builder, t, phrase_samples)
      [] phase = "B"    -> phase_b_gains(t, phrase_samples)
      [] OTHER          -> [low1 |-> Zero, mid1 |-> Zero, high1 |-> Zero,
                            low2 |-> RInt(1), mid2 |-> RInt(1), high2 |-> RInt(1)]

\* the position after <<phase, t>> in np.concatenate([s1_pre, phase_a,
\* (phase_b,) s2_after]): one position stands for s1_pre and one for s2_after
next_position(builder, phase, t, phrase_samples) ==
    IF phase = "pre" THEN <<"A", 0>>
    ELSE IF t + 1 < phrase_samples THEN <<phase, t + 1>>
    ELSE IF phase = "A" /\ builder = "_build_loose_transition" THEN <<"B", 0>>
    ELSE <<"tail", 0>>

\* np.max(np.abs(mix)) of the assembled buffer: silence, quiet, already at
\* 0.9, louder than full scale
Peaks == {Zero, Rat(1, 4), Rat(9, 10), RInt(3)}

\* :567-570 (and loop_mix.py:634-636): the peak of the buffer after
\* `if peak > 0: mix = mix * (0.9 / peak)`
peak_normalise_to_one(peak) ==
    IF RLt(Zero, peak) THEN RMul(peak, RDiv(RInt(1), peak)) ELSE peak

peak_normalise(peak) ==
    IF RLt(Zero, peak) THEN RMul(peak, RDiv(Rat(9, 10), peak)) ELSE peak

\* :549-565, the call of the chosen builder
mt_build(builder, y1_n, low1_n, low2_n, s1_v1_start, trans_start, s2_start, phrase_samples, s2_end_sample) ==
    CASE builder = "_build_tight_fallback" ->
           _build_tight_fallback(y1_n, low1_n, low2_n, s1_v1_start, trans_start,
                                 s2_start, phrase_samples, s2_end_sample)
      [] builder = "_build_tight_transition" ->
           _build_tight_transition(y1_n, low1_n, low2_n, s1_v1_start,
                                   trans_start, s2_start, phrase_samples,
                                   s2_end_sample)
      [] OTHER ->
           _build_loose_transition(y1_n, low1_n, low2_n, s1_v1_start,
                                   trans_start, s2_start, phrase_samples,
                                   s2_end_sample)

-----------------------------------------------------------------------------
(* build_loop_mix: loop_mix.py:404-657                                     *)

\* :450-452, next(ts for ts in verse2_ts if ts[0] > s2_c1_end_orig), 0 = None
verse_after_ch(verse2_ts, s2_c1_end_orig) ==
    LET after == {k \in 1..Len(verse2_ts) : RLt(s2_c1_end_orig, verse2_ts[k][1])}
    IN  IF after = {} THEN 0
        ELSE CHOOSE k \in after : \A j \in after : k <= j

\* :436-457
bl_prerequisite(chorus1_ts, chorus2_ts, verse1_ts, verse2_ts) ==
    IF chorus1_ts = << >> THEN "Song 1: no chorus"
    ELSE IF verse1_ts = << >> THEN "Song 1: no verse"
    ELSE IF chorus2_ts = << >> THEN "Song 2: no chorus"
    ELSE IF Len(verse2_ts) < 2 THEN "Song 2: need 2 verses"
    ELSE IF verse_after_ch(verse2_ts, chorus2_ts[1][2]) = 0
         THEN "Song 2: no verse after chorus 1"
    ELSE "none"

\* loop_mix.py:61-62
_XFADE_SAMP == 512
_TRANS_FADE_SEC == 5

\* loop_mix.py:326-356 on lengths: stem_n samples tiled to target_samp.  The
\* tile is n_reps copies of stem[:, :seg_len], which holds only stem_n
\* samples when the stem is shorter than one bar.
_loop_to_duration(stem_n, bar_samp, target_samp) ==
    LET whole   == stem_n \div bar_samp
        bars    == IF whole > 1 THEN whole ELSE 1
        seg_len == bars * bar_samp
        seg_n   == IF stem_n < seg_len THEN stem_n ELSE seg_len
        n_reps  == Ceil(Rat(target_samp, seg_len)) + 1
        tiled   == n_reps * seg_n
        out_n   == IF tiled < target_samp + _XFADE_SAMP THEN tiled
                   ELSE target_samp + _XFADE_SAMP
    IN  IF out_n < target_samp THEN out_n ELSE target_samp

\* loop_mix.py:336-339: seg_len after the snap to whole bars
loop_seg_len(stem_n, bar_samp) ==
    LET whole == stem_n \div bar_samp
    IN  (IF whole > 1 THEN whole ELSE 1) * bar_samp

\* loop_mix.py:339: seg = stem[:, :seg_len] has no more samples than the stem
loop_seg_n(stem_n, bar_samp) ==
    LET seg_len == loop_seg_len(stem_n, bar_samp)
    IN  IF stem_n < seg_len THEN stem_n ELSE seg_len

\* loop_mix.py:341
loop_n_reps(stem_n, bar_samp, target_samp) ==
    Ceil(Rat(target_samp, loop_seg_len(stem_n, bar_samp))) + 1

\* loop_mix.py:343: out.shape[1]
loop_out_shape(stem_n, bar_samp, target_samp) ==
    LET tiled == loop_n_reps(stem_n, bar_samp, target_samp)
                    * loop_seg_n(stem_n, bar_samp)
    IN  IF tiled < target_samp + _XFADE_SAMP THEN tiled
        ELSE target_samp + _XFADE_SAMP

\* loop_mix.py:349-351: the loop points k whose crossfade is applied
xfade_applied(stem_n, bar_samp, target_samp) ==
    {k \in 1..(loop_n_reps(stem_n, bar_samp, target_samp) - 1) :
        LET idx == k * loop_seg_len(stem_n, bar_samp)
        IN  /\ idx >= _XFADE_SAMP
            /\ idx + _XFADE_SAMP <= loop_out_shape(stem_n, bar_samp, target_samp)}

\* loop_mix.py:352-353: what the crossfade at idx multiplies sample i by
xfade_factor(idx, i) ==
    IF idx - _XFADE_SAMP <= i /\ i < idx
    THEN linspace(1, 0, _XFADE_SAMP, i - (idx - _XFADE_SAMP))
    ELSE IF idx <= i /\ i < idx + _XFADE_SAMP
    THEN linspace(0, 1, _XFADE_SAMP, i - idx)
    ELSE RInt(1)

\* the product of the factors of a set of <<loop point, factor>> pairs
RECURSIVE RProd(_)
RProd(fs_) ==
    IF fs_ = {} THEN RInt(1)
    ELSE LET f == CHOOSE x \in fs_ : TRUE
         IN  RMul(f[2], RProd(fs_ \ {f}))

\* the audio of the chorus window: silence apart, a constant level or a
\* level that changes sign half way (so that its two ends differ by 2)
seg_value(pattern, stem_n, i) ==
    IF pattern = "const" THEN 1
    ELSE IF 2 * i < stem_n THEN -1 ELSE 1

\* loop_mix.py:343-355: sample i of out (0 <= i < out.shape[1])
loop_sample(pattern, stem_n, bar_samp, target_samp, i) ==
    LET seg_len == loop_seg_len(stem_n, bar_samp)
        seg_n   == loop_seg_n(stem_n, bar_samp)
        ks      == {k \in xfade_applied(stem_n, bar_samp, target_samp) :
                       k * seg_len - _XFADE_SAMP <= i
                       /\ i < k * seg_len + _XFADE_SAMP}
        factors == {<<k, xfade_factor(k * seg_len, i)>> : k \in ks}
    IN  IF \E f \in factors : f[2] = Zero THEN Zero
        ELSE RMul(RInt(seg_value(pattern, stem_n, i % seg_n)),
                  RProd(factors))

\* loop_mix.py:363-397 on lengths: the loop slice times the fade_samp ramp
\* plus the track-B chunks, each zero-padded to fade_samp
_build_loop_transition_no_pad(loop_n, s2v_n, loop_trans_start, fade_samp) ==
    [ok |-> TRUE, n |-> SliceLen(s2v_n, 0, fade_samp)]

_build_loop_transition(loop_n, s2v_n, loop_trans_start, fade_samp) ==
    LET loop_sl == SliceLen(loop_n, loop_trans_start, loop_trans_start + fade_samp)
        chunk   == SliceLen(s2v_n, 0, fade_samp)
        padded  == IF chunk < fade_samp THEN chunk + (fade_samp - chunk) ELSE chunk
    IN  [ok |-> loop_sl = fade_samp /\ padded = fade_samp, n |-> padded]

\* loop_mix.py:526-632 on lengths: the four pieces of the loop mix
loop_layout(y1_n, stem1_n, stem2_n, sr1, bar_dur, chorus1, verse1, chorus2, verse_ach, verse2_2, stretch_rate) ==
    LET bar_samp     == _sec_to_samp(bar_dur, sr1)
        s1_v1_start  == _sec_to_samp(verse1[1], sr1)
        s1_c1_start  == _sec_to_samp(chorus1[1], sr1)
        s1_c1_end    == _sec_to_samp(chorus1[2], sr1)
        s2_c1_start  == _sec_to_samp(RDiv(chorus2[1], stretch_rate), sr1)
        s2_c1_end    == _sec_to_samp(RDiv(chorus2[2], stretch_rate), sr1)
        d2_chorus_samp     == s2_c1_end - s2_c1_start
        s2_verse_ach_start == _sec_to_samp(RDiv(verse_ach[1], stretch_rate), sr1)
        s2_v2_end_raw      == _sec_to_samp(RDiv(verse2_2[2], stretch_rate), sr1)
        trans_fade_samp    == _TRANS_FADE_SEC * sr1
        total_loop_samp    == d2_chorus_samp + trans_fade_samp
        s1_chorus_seg      == SliceLen(stem1_n, s1_c1_start, s1_c1_end)
        loop_all   == _loop_to_duration(s1_chorus_seg, bar_samp, total_loop_samp)
        s2_v2_end  == IF s2_v2_end_raw < stem2_n THEN s2_v2_end_raw ELSE stem2_n
        s2v_n      == SliceLen(stem2_n, s2_verse_ach_start,
                               s2_verse_ach_start + stem2_n)
        trans      == _build_loop_transition(loop_all, s2v_n, d2_chorus_samp,
                                             trans_fade_samp)
    IN  [ok |-> loop_all = total_loop_samp /\ trans.ok,
         bar_samp |-> bar_samp, s1_c1_start |-> s1_c1_start,
         s2_c1_start |-> s2_c1_start, d2_chorus_samp |-> d2_chorus_samp,
         s2_verse_ach_start |-> s2_verse_ach_start, s2_v2_end |-> s2_v2_end,
         trans_fade_samp |-> trans_fade_samp, loop_all |-> loop_all,
         pieces |-> [s1_pre  |-> SliceLen(y1_n, s1_v1_start, s1_c1_end),
                     part2   |-> SliceLen(loop_all, 0, d2_chorus_samp),
                     trans   |-> trans.n,
                     s2_tail |-> SliceLen(stem2_n,
                                          s2_verse_ach_start + trans_fade_samp,
                                          s2_v2_end)]]

\* loop_mix.py:381-396, 607-633: the index ranges of the looped buffers and
\* of track B's stems that part2[:, :d2_chorus_samp], trans and s2_tail read
loop_reads(loop_n, stem2_n, d2_chorus_samp, trans_fade_samp, s2_verse_ach_start, s2_v2_end) ==
    [loop |-> <<SliceRange(loop_n, 0, d2_chorus_samp),
                SliceRange(loop_n, d2_chorus_samp,
                           d2_chorus_samp + trans_fade_samp)>>,
     b    |-> <<SliceRange(stem2_n, s2_verse_ach_start,
                           s2_verse_ach_start + trans_fade_samp),
                SliceRange(stem2_n, s2_verse_ach_start + trans_fade_samp,
                           s2_v2_end)>>]

\* loop_mix.py:621-624
LoopMixLen(pieces) == pieces.s1_pre + pieces.part2 + pieces.trans + pieces.s2_tail

-----------------------------------------------------------------------------
(* Files.  A path under output_dir is <<directory, name, timestamp>>; the  *)
(* timestamp is 0 except in the canonical name dj_mix gives the mix.       *)

StemsDir(song) == <<"stems", song>>
mt_mix_path == <<"mixes", "song1" \o "_" \o "song2" \o "_mix.wav">>
bl_mix_path == <<"mixes", "song1" \o "_" \o "song2" \o "_loop_mix.wav">>
\* dj_mix.py:44-48: int(seconds) // 60 and int(seconds) % 60 as t{m}m{s:02d}s
_fmt_ts_unpadded(seconds) ==
    "t" \o ToString(Floor(seconds) \div 60) \o "m"
        \o ToString(Floor(seconds) % 60) \o "s"

_fmt_ts(seconds) ==
    LET m == Floor(seconds) \div 60
        sec == Floor(seconds) % 60
    IN  "t" \o ToString(m) \o "m"
            \o (IF sec < 10 THEN "0" ELSE "") \o ToString(sec) \o "s"

\* dj_mix.py:155-159: {s1}_{s2}_{mode}_{ts_str}.wav next to builder_path
new_path(builder_path, m, seconds) ==
    <<builder_path[1],
      "song1" \o "_" \o "song2" \o "_" \o m \o "_" \o _fmt_ts(seconds) \o ".wav">>

\* many_transitions.py:588-610: the reference sections, in the order saved
mt_reference_files(tight, verse2_ts) ==
    << <<"song_1", "verse1.wav">>, <<"song_1", "chorus1.wav">> >>
    \o (IF ~tight THEN << <<"song_1", "verse2.wav">> >> ELSE << >>)
    \o << <<"song_2", "chorus1.wav">> >>
    \o (IF verse2_ts # << >> THEN << <<"song_2", "verse1.wav">> >> ELSE << >>)

NoErr == <<"none", "">>
NoPath == <<"none", "">>
NoStem == [n |-> 0, tempo |-> Zero, sr |-> 0]
\* loop_mix.py:211-218: Pearson r of a constant signal is NaN, and np.clip
\* leaves NaN as it is; the metrics are otherwise thousandths in 0..1000
NaN == -1

\* loop_mix.py:293-319: the weighted final score, the five values rounded to
\* three places, and the verdict printed from the unrounded final score
\* (every comparison with NaN is false)
score_vocal_fit(score_accent, score_timing, score_contour, score_voc_ref) ==
    LET nan   == NaN \in {score_accent, score_timing, score_contour, score_voc_ref}
        final == 400 * score_accent + 250 * score_timing
                   + 150 * score_contour + 200 * score_voc_ref
    IN  [accent  |-> score_accent,
         timing  |-> score_timing,
         contour |-> score_contour,
         voc_ref |-> score_voc_ref,
         final   |-> IF nan THEN NaN ELSE PyRound(Rat(final, 1000)),
         verdict |-> IF ~nan /\ final >= 500000
                     THEN "good fit" ELSE "weak fit - proceed with caution"]

NoScores == [accent |-> 0, timing |-> 0, contour |-> 0, voc_ref |-> 0,
             final |-> 0, verdict |-> "none"]

\* the four metrics of score_vocal_fit (loop_mix.py:250-291) on some audio
ScoreInputs == {<<1000, 0, 500, 0>>, <<500, 500, 500, 500>>, <<NaN, 0, 0, NaN>>}

\* Python's x % y on floats, y > 0: x - floor(x / y) * y
RMod(x, y) == RSub(x, RMul(RInt(Floor(RDiv(x, y))), y))

\* loop_mix.py:260-261: subdiv = (60 / bpm) / 2 for bpm in centi-BPM
subdiv_of(bpm) == Rat(60 * 100, 2 * bpm)

\* loop_mix.py:265-267: the offset taken for one onset time
onset_offset(t, subdiv) == RSub(RMod(t, subdiv), RDiv(subdiv, RInt(2)))

\* loop_mix.py:263-275: the offsets, and whether the timing score is the
\* constant 0.0 of the else branch or the product of the two exponentials
microtiming(onset_times, bpm) ==
    IF Len(onset_times) >= 2
    THEN [offsets |-> [i \in 1..Len(onset_times) |->
                          onset_offset(onset_times[i], subdiv_of(bpm))],
          score   |-> "exp(-std^2 / sigma^2) * exp(-mean^2 / mu^2)"]
    ELSE [offsets |-> << >>, score |-> "0.0"]

NoTiming == [onset_times |-> << >>, bpm |-> 0, offsets |-> << >>,
             score |-> "none"]

NoGroup == [fn |-> "none", mask |-> << >>, bpm |-> 0, out |-> << >>]

NoLtd == [pattern |-> "none", stem_n |-> 0, bar_samp |-> 0, target_samp |-> 0,
          out_n |-> -1, seg_len |-> 0, max_abs |-> 0,
          boundary |-> -1, jump |-> Zero]

NoGains == [low1 |-> Zero, mid1 |-> Zero, high1 |-> Zero,
            low2 |-> Zero, mid2 |-> Zero, high2 |-> Zero]

NoLoopPieces == [s1_pre |-> 0, part2 |-> 0, trans |-> 0, s2_tail |-> 0]

NoPieces == [s1_pre |-> 0, phase_a |-> 0, phase_b |-> 0, s2_after |-> 0]

NoLocals ==
    [fn |-> "none", tight |-> FALSE,
     phrase_duration |-> Zero, transition_start_sec |-> Zero,
     use_fallback |-> FALSE, phrases_needed |-> 0,
     y1 |-> NoStem, low1 |-> NoStem, low2_raw |-> NoStem, low2 |-> NoStem,
     stretch_rate |-> Zero,
     phrase_samples |-> 0, trans_start |-> 0, s2_start |-> 0,
     s1_v1_start |-> 0, s1_c1_end |-> 0, s2_v2_end |-> 0,
     mix |-> "none", pieces |-> NoPieces, builder_path |-> NoPath,
     bar_samp |-> 0, s1_c1_start |-> 0, d2_chorus_samp |-> 0,
     s2_verse_ach_start |-> 0, trans_fade_samp |-> 0, loop_all |-> 0,
     loop_pieces |-> NoLoopPieces,
     sample_t |-> -1, gains |-> NoGains, phase |-> "none",
     ltd |-> NoLtd, timing |-> NoTiming, group |-> NoGroup,
     peak_raw |-> Zero, peak |-> Zero, normalised |-> 0,
     scores |-> NoScores]

-----------------------------------------------------------------------------
(* dj_mix: dj_mix.py:94-163                                                *)

\* dj_mix.py:106-109 (get_key raises ValueError on an unknown key)
DjAnalyse ==
    /\ pc = "start"
    /\ \/ \E song \in {"song 1", "song 2"} :   \* :100-102, a path that is no file
             /\ pc' = "raised" /\ err' = <<"FileNotFound", song>>
             /\ UNCHANGED <<key1, key2>>
       \/ LET k1 == get_key(ess1)
              k2 == get_key(ess2)
          IN  IF k1 = NoKey
              THEN /\ pc' = "raised" /\ err' = <<"UnknownKey", "song 1">>
                   /\ UNCHANGED <<key1, key2>>
              ELSE IF k2 = NoKey
              THEN /\ pc' = "raised" /\ err' = <<"UnknownKey", "song 2">>
                   /\ key1' = k1 /\ UNCHANGED key2
              ELSE /\ pc' = "analysed" /\ UNCHANGED err
                   /\ key1' = k1 /\ key2' = k2
    /\ UNCHANGED <<outer, inputs, ret, calls, disk, key_ok, mode, trans_sec, bl>>

\* dj_mix.py:111-115
DjCompare ==
    /\ pc = "analysed"
    /\ key_ok' = keys_compatible(key1, key2)
    /\ pc' = "compared"
    /\ UNCHANGED <<outer, inputs, err, ret, calls, disk, key1, key2, mode, trans_sec, bl>>

\* dj_mix.py:126-135
DjPickMode ==
    /\ pc = "compared"
    /\ mode' = pick_mode(bpm_diff(bpm1, bpm2), key_ok)
    /\ pc' = "picked"
    /\ UNCHANGED <<outer, inputs, err, ret, calls, disk, key1, key2, key_ok, trans_sec, bl>>

\* dj_mix.py:62-87
_transition_timestamp(m, chorus1, verse1) ==
    IF chorus1 = << >> THEN Zero
    ELSE IF m = "loop" THEN chorus1[1][2]
    ELSE IF m = "tight" THEN chorus1[1][1]
    ELSE IF Len(verse1) >= 2 THEN verse1[2][1]
    ELSE chorus1[1][2]

\* dj_mix.py:137-139
DjTimestamp ==
    /\ pc = "picked"
    /\ trans_sec' = _transition_timestamp(mode, find_chorus(trk1, bpm1),
                                          find_verse(trk1, bpm1))
    /\ pc' = "stamped"
    /\ UNCHANGED <<outer, inputs, err, ret, calls, disk, key1, key2, key_ok, mode, bl>>

\* dj_mix.py:148-152
DjDispatch ==
    /\ pc = "stamped"
    /\ calls' = Append(calls, builder_for(mode))
    /\ pc' = IF builder_for(mode) = "build_loop_mix" THEN "bl_start" ELSE "mt_start"
    /\ UNCHANGED <<outer, inputs, err, ret, disk, djvars, bl>>

\* dj_mix.py:154-163: os.replace either renames or raises OSError
DjRename ==
    /\ pc = "built"
    /\ \/ /\ disk' = (disk \ {bl.builder_path})
                       \cup {new_path(bl.builder_path, mode, trans_sec)}
          /\ ret' = new_path(bl.builder_path, mode, trans_sec)
          /\ pc' = "done"
          /\ UNCHANGED err
       \/ /\ pc' = "raised" /\ err' = <<"IoError", "rename">>
          /\ UNCHANGED <<disk, ret>>
    /\ UNCHANGED <<outer, inputs, calls, djvars, bl>>

-----------------------------------------------------------------------------
(* make_transition, step by step                                           *)

\* The Python class of each exception the call can end with: ValueError for
\* the prerequisite checks (many_transitions.py:421-436, 532-544;
\* loop_mix.py:436-457) and an unknown key (:116-121), FileNotFoundError for
\* a missing input (dj_mix.py:100-102), subprocess.CalledProcessError for
\* subprocess.run(check=True) (many_transitions.py:176-180), an OSError or
\* soundfile error for a failed write or rename.
exception_class(kind) ==
    CASE kind = "Prerequisite" -> "ValueError"
      [] kind = "UnknownKey"   -> "ValueError"
      [] kind = "Shape"        -> "ValueError"
      [] kind = "FileNotFound" -> "FileNotFoundError"
      [] kind = "Separator"    -> "CalledProcessError"
      [] kind = "IoError"      -> "OSError"
      [] OTHER                 -> "none"

NoCli == [exit |-> -1, printed |-> <<"", "">>, uncaught |-> "none"]

\* dj_mix.py:179-183: what `except (FileNotFoundError, ValueError)` lets through
cli_handler(e, returned) ==
    IF returned
    THEN [exit |-> 0, printed |-> <<"", "">>, uncaught |-> "none"]
    ELSE IF exception_class(e[1]) \in {"FileNotFoundError", "ValueError"}
    THEN [exit |-> 1, printed |-> <<"Error: ", e[2]>>, uncaught |-> "none"]
    ELSE [exit |-> 1, printed |-> <<"", "">>, uncaught |-> exception_class(e[1])]

\* dj_mix.py:170-183: the command line, once its call of dj_mix has ended
CliMain ==
    /\ entry = "dj_mix" /\ cli = NoCli
    /\ pc \in {"done", "raised"}
    /\ cli' = cli_handler(err, pc = "done")
    /\ UNCHANGED <<inputs, pc, err, ret, calls, disk, djvars, bl, jobs, fs>>

Raise(kind, msg) == pc' = "raised" /\ err' = <<kind, msg>>

\* the value handed back to the caller of the entry function
Return(path) ==
    IF entry = "dj_mix"
    THEN /\ pc' = "built" /\ UNCHANGED ret
    ELSE /\ pc' = "done" /\ ret' = path

\* many_transitions.py:388-405
MtAnalyse ==
    /\ pc = "mt_start"
    /\ IF get_key(ess1) = NoKey \/ get_key(ess2) = NoKey
       THEN /\ Raise("UnknownKey", "make_transition")
            /\ bl' = [NoLocals EXCEPT !.fn = "make_transition"]
       ELSE /\ bl' = [NoLocals EXCEPT
                        !.fn = "make_transition",
                        !.tight = mt_tight(bpm1, bpm2, get_key(ess1), get_key(ess2))]
            /\ pc' = "mt_decided"
            /\ UNCHANGED err
    /\ UNCHANGED <<outer, inputs, ret, calls, disk, djvars>>

\* many_transitions.py:421-436
MtValidate ==
    /\ pc = "mt_decided"
    /\ LET e == mt_prerequisite(find_chorus(trk1, bpm1), find_chorus(trk2, bpm2),
                                find_verse(trk1, bpm1), find_verse(trk2, bpm2),
                                bl.tight)
       IN  IF e # "none"
           THEN Raise("Prerequisite", e)
           ELSE pc' = "mt_valid" /\ UNCHANGED err
    /\ UNCHANGED <<outer, inputs, ret, calls, disk, djvars, bl>>

\* many_transitions.py:438-466
MtGeometry ==
    /\ pc = "mt_valid"
    /\ LET pd == mt_phrase_duration(bpm1, bpm2)
           g  == mt_geometry(bl.tight, find_chorus(trk1, bpm1)[1],
                             find_verse(trk1, bpm1), pd)
       IN  bl' = [bl EXCEPT !.phrase_duration = pd,
                            !.transition_start_sec = g.transition_start_sec,
                            !.use_fallback = g.use_fallback,
                            !.phrases_needed = g.phrases_needed]
    /\ pc' = "mt_geom"
    /\ UNCHANGED <<outer, inputs, err, ret, calls, disk, djvars>>

\* many_transitions.py:480-496: load song 1, run the separator on both songs
\* (subprocess.run(check=True) raises when the separator fails)
MtSplitStems ==
    /\ pc = "mt_geom"
    /\ \/ /\ disk' = disk \cup {StemsDir("song1"), StemsDir("song2")}
          /\ bl' = [bl EXCEPT !.y1 = load_stem(trk1, bpm1),
                              !.low1 = load_stem(trk1, bpm1),
                              !.low2_raw = load_stem(trk2, bpm2)]
          /\ pc' = "mt_stems"
          /\ UNCHANGED err
       \/ /\ disk' = disk \cup {StemsDir("song1")}
          /\ Raise("Separator", "song 2")
          /\ UNCHANGED bl
       \/ /\ Raise("Separator", "song 1")
          /\ UNCHANGED <<disk, bl>>
    /\ UNCHANGED <<outer, inputs, ret, calls, djvars>>

\* many_transitions.py:501-514
MtStretch ==
    /\ pc = "mt_stems"
    /\ LET rate == stretch_rate_of(bpm1, bpm2)
       IN  bl' = [bl EXCEPT
                    !.stretch_rate = rate,
                    !.low2 = _resample_stems(_stretch_stem(bl.low2_raw, rate),
                                             bl.low2_raw.sr, bl.y1.sr)]
    /\ pc' = "mt_stretched"
    /\ UNCHANGED <<outer, inputs, err, ret, calls, disk, djvars>>

\* many_transitions.py:519-544
MtGuard ==
    /\ pc = "mt_stretched"
    /\ LET sr1            == bl.y1.sr
           phrase_samples == _sec_to_samp(bl.phrase_duration, sr1)
           trans_start    == _sec_to_samp(bl.transition_start_sec, sr1)
           s2_start       == _sec_to_samp(
                                 RDiv(find_chorus(trk2, bpm2)[1][1], bl.stretch_rate),
                                 sr1)
           req_s1         == trans_start + bl.phrases_needed * phrase_samples
           req_s2         == s2_start + bl.phrases_needed * phrase_samples
           e              == mt_guard(bl.low1.n, bl.low2.n, req_s1, req_s2)
       IN  /\ bl' = [bl EXCEPT
                     !.phrase_samples = phrase_samples,
                     !.trans_start = trans_start,
                     !.s2_start = s2_start,
                     !.s1_v1_start =
                         _sec_to_samp(find_verse(trk1, bpm1)[1][1], sr1),
                     !.s1_c1_start =
                         _sec_to_samp(find_chorus(trk1, bpm1)[1][1], sr1),
                     !.s1_c1_end =
                         _sec_to_samp(find_chorus(trk1, bpm1)[1][2], sr1),
                     !.s2_v2_end =
                         _sec_to_samp(RDiv(find_verse(trk2, bpm2)[2][2],
                                           bl.stretch_rate), sr1)]
           /\ IF e # "none"
              THEN Raise("Prerequisite", e)
              ELSE pc' = "mt_guarded" /\ UNCHANGED err
    /\ UNCHANGED <<outer, inputs, ret, calls, disk, djvars>>

\* many_transitions.py:549-570
MtBuild ==
    /\ pc = "mt_guarded"
    /\ \E peak \in Peaks :
         LET builder == mt_builder(bl.tight, bl.use_fallback)
         IN  bl' = [bl EXCEPT
                      !.mix = builder,
                      !.pieces = mt_build(builder, bl.y1.n, bl.low1.n, bl.low2.n,
                                          bl.s1_v1_start, bl.trans_start,
                                          bl.s2_start, bl.phrase_samples,
                                          bl.s2_v2_end),
                      !.peak_raw = peak,
                      !.peak = peak_normalise(peak),
                      !.normalised = bl.normalised + 1]
    /\ pc' = "mt_mixed"
    /\ UNCHANGED <<outer, inputs, err, ret, calls, disk, djvars>>

\* many_transitions.py:245-258, 286-299, 325-338: one sample of Phase A
PhaseASample ==
    /\ pc = "mt_mixed" /\ bl.mix # "none"
    /\ \E t \in 0..(bl.phrase_samples - 1) :
          bl' = [bl EXCEPT !.sample_t = t,
                           !.gains = phase_a_gains(bl.mix, t, bl.phrase_samples)]
    /\ UNCHANGED <<outer, inputs, pc, err, ret, calls, disk, djvars>>

\* the mix played one sample further through the transition
PlaySample ==
    /\ pc = "mt_mixed" /\ bl.phase \in {"pre", "A", "B"}
    /\ LET nxt == next_position(bl.mix, bl.phase, bl.sample_t, bl.phrase_samples)
       IN  bl' = [bl EXCEPT !.phase = nxt[1],
                            !.sample_t = nxt[2],
                            !.gains = play_gains(bl.mix, nxt[1], nxt[2],
                                                 bl.phrase_samples)]
    /\ UNCHANGED <<outer, inputs, pc, err, ret, calls, disk, djvars>>

\* loop_mix.py:254-275, the microtiming metric of score_vocal_fit
MicroTiming ==
    /\ pc = "timing_start"
    /\ LET r == microtiming(bl.timing.onset_times, bl.timing.bpm)
       IN  bl' = [bl EXCEPT !.timing.offsets = r.offsets,
                            !.timing.score = r.score]
    /\ pc' = "timing_done"
    /\ UNCHANGED <<outer, inputs, err, ret, calls, disk, djvars>>

\* get_chorus.py:116-150: the chorus mask grouped and converted to seconds
FindChorusGroup ==
    /\ pc = "group_start" /\ bl.group.fn = "find_chorus"
    /\ bl' = [bl EXCEPT !.group.out =
                 chorus_timestamps(bl.group.mask, bar_duration(bl.group.bpm))]
    /\ pc' = "group_done"
    /\ UNCHANGED <<outer, inputs, err, ret, calls, disk, djvars>>

\* get_verse.py:148-185: the verse mask grouped and converted to seconds
FindVerseGroup ==
    /\ pc = "group_start" /\ bl.group.fn = "find_verse"
    /\ bl' = [bl EXCEPT !.group.out =
                 verse_timestamps(bl.group.mask, bar_duration(bl.group.bpm))]
    /\ pc' = "group_done"
    /\ UNCHANGED <<outer, inputs, err, ret, calls, disk, djvars>>

\* loop_mix.py:326-356, one call
LoopToDuration ==
    /\ pc = "ltd_start"
    /\ LET a == bl.ltd
       IN  bl' = [bl EXCEPT !.ltd =
                     [a EXCEPT !.out_n = _loop_to_duration(a.stem_n, a.bar_samp,
                                                            a.target_samp),
                               !.seg_len = loop_seg_len(a.stem_n, a.bar_samp),
                               !.max_abs = IF a.stem_n > 0 THEN 1 ELSE 0]]
    /\ pc' = "ltd_done"
    /\ UNCHANGED <<outer, inputs, err, ret, calls, disk, djvars>>

\* the returned buffer read on both sides of one loop point k * seg_len
LoopBoundary ==
    /\ pc = "ltd_done"
    /\ LET a == bl.ltd
       IN  \E k \in 1..(loop_n_reps(a.stem_n, a.bar_samp, a.target_samp) - 1) :
             /\ k * a.seg_len < a.out_n
             /\ LET idx    == k * a.seg_len
                    after  == loop_sample(a.pattern, a.stem_n, a.bar_samp,
                                          a.target_samp, idx)
                    before == loop_sample(a.pattern, a.stem_n, a.bar_samp,
                                          a.target_samp, idx - 1)
                    d      == RSub(after, before)
                IN  bl' = [bl EXCEPT !.ltd.boundary = idx,
                                     !.ltd.jump = Rat(Abs(d[1]), d[2])]
    /\ UNCHANGED <<outer, inputs, pc, err, ret, calls, disk, djvars>>

\* many_transitions.py:583-586: sf.write either writes the file or raises,
\* and a failed write may leave what it had written
MtSaveMix ==
    /\ pc = "mt_mixed"
    /\ \/ /\ disk' = disk \cup {mt_mix_path}
          /\ bl' = [bl EXCEPT !.builder_path = mt_mix_path]
          /\ pc' = "mt_saved"
          /\ UNCHANGED err
       \/ /\ disk' \in {disk, disk \cup {mt_mix_path}}
          /\ Raise("IoError", "mix")
          /\ UNCHANGED bl
    /\ UNCHANGED <<outer, inputs, ret, calls, djvars>>

\* many_transitions.py:588-616: the reference sections, then return mix_path
MtSaveRefs ==
    /\ pc = "mt_saved"
    /\ LET refs == mt_reference_files(bl.tight, find_verse(trk2, bpm2))
       IN  \/ /\ disk' = disk \cup {refs[i] : i \in 1..Len(refs)}
              /\ Return(bl.builder_path)
              /\ UNCHANGED err
           \/ \E k \in 0..(Len(refs) - 1) :
                /\ disk' = disk \cup {refs[i] : i \in 1..k}
                /\ Raise("IoError", "reference section")
                /\ UNCHANGED ret
    /\ UNCHANGED <<outer, inputs, calls, djvars, bl>>

-----------------------------------------------------------------------------
(* build_loop_mix, step by step                                            *)

\* loop_mix.py:421-431, 462-464
BlAnalyse ==
    /\ pc = "bl_start"
    /\ IF get_key(ess1) = NoKey \/ get_key(ess2) = NoKey
       THEN /\ Raise("UnknownKey", "build_loop_mix")
            /\ bl' = [NoLocals EXCEPT !.fn = "build_loop_mix"]
       ELSE /\ bl' = [NoLocals EXCEPT
                        !.fn = "build_loop_mix",
                        !.tight = keys_compatible(get_key(ess1), get_key(ess2)),
                        !.phrases_needed =
                            IF keys_compatible(get_key(ess1), get_key(ess2))
                            THEN 1 ELSE 2]
            /\ pc' = "bl_analysed"
            /\ UNCHANGED err
    /\ UNCHANGED <<outer, inputs, ret, calls, disk, djvars>>

\* loop_mix.py:436-457
BlValidate ==
    /\ pc = "bl_analysed"
    /\ LET e == bl_prerequisite(find_chorus(trk1, bpm1), find_chorus(trk2, bpm2),
                                find_verse(trk1, bpm1), find_verse(trk2, bpm2))
       IN  IF e # "none"
           THEN Raise("Prerequisite", e)
           ELSE pc' = "bl_valid" /\ UNCHANGED err
    /\ UNCHANGED <<outer, inputs, ret, calls, disk, djvars, bl>>

\* loop_mix.py:479-502
BlSplitStems ==
    /\ pc = "bl_valid"
    /\ \/ /\ disk' = disk \cup {StemsDir("song1"), StemsDir("song2")}
          /\ bl' = [bl EXCEPT !.phrase_duration = RMul(RInt(8), bar_duration(bpm1)),
                              !.y1 = load_stem(trk1, bpm1),
                              !.low1 = load_stem(trk1, bpm1),
                              !.low2_raw = load_stem(trk2, bpm2)]
          /\ pc' = "bl_stems"
          /\ UNCHANGED err
       \/ /\ disk' = disk \cup {StemsDir("song1")}
          /\ Raise("Separator", "song 2")
          /\ UNCHANGED bl
       \/ /\ Raise("Separator", "song 1")
          /\ UNCHANGED <<disk, bl>>
    /\ UNCHANGED <<outer, inputs, ret, calls, djvars>>

\* loop_mix.py:507-523
BlStretch ==
    /\ pc = "bl_stems"
    /\ LET rate == stretch_rate_of(bpm1, bpm2)
       IN  bl' = [bl EXCEPT
                    !.stretch_rate = rate,
                    !.low2 = _resample_stems(_stretch_stem(bl.low2_raw, rate),
                                             bl.low2_raw.sr, bl.y1.sr)]
    /\ pc' = "bl_stretched"
    /\ UNCHANGED <<outer, inputs, err, ret, calls, disk, djvars>>

\* loop_mix.py:528-636
bl_layout ==
    LET verse2_ts == find_verse(trk2, bpm2)
        chorus2   == find_chorus(trk2, bpm2)[1]
    IN  loop_layout(bl.y1.n, bl.low1.n, bl.low2.n, bl.y1.sr,
                    bar_duration(bpm1),
                    find_chorus(trk1, bpm1)[1],
                    find_verse(trk1, bpm1)[1],
                    chorus2,
                    verse2_ts[verse_after_ch(verse2_ts, chorus2[2])],
                    verse2_ts[2],
                    bl.stretch_rate)

bl_abort_on_weak_fit(scores, lay) ==
    ~lay.ok \/ scores.verdict # "good fit"

\* loop_mix.py:552-631: what stops steps 9-14.  The call of score_vocal_fit
\* at line 559 is a statement whose result is dropped, so only the shape
\* mismatch of loop_all + vox_overlay is left
bl_abort(scores, lay) ==
    ~lay.ok

BlBuild ==
    /\ pc = "bl_stretched"
    /\ \E lay \in {bl_layout} :
       LET sized == [bl EXCEPT
                       !.phrase_samples = _sec_to_samp(bl.phrase_duration, bl.y1.sr),
                       !.bar_samp = lay.bar_samp,
                       !.s1_c1_start = lay.s1_c1_start,
                       !.s2_start = lay.s2_c1_start,
                       !.d2_chorus_samp = lay.d2_chorus_samp,
                       !.s2_verse_ach_start = lay.s2_verse_ach_start,
                       !.s2_v2_end = lay.s2_v2_end,
                       !.trans_fade_samp = lay.trans_fade_samp,
                       !.loop_all = lay.loop_all]
       IN  \E sc \in ScoreInputs :
             LET scores == score_vocal_fit(sc[1], sc[2], sc[3], sc[4])
                 scored == [sized EXCEPT !.scores = scores]
             IN  IF bl_abort(scores, lay)
                 THEN /\ bl' = scored     \* numpy: operands could not be broadcast
                      /\ Raise("Shape", "loop_all + vox_overlay")
                 ELSE /\ \E peak \in Peaks :
                           bl' = [scored EXCEPT !.mix = "loop",
                                                !.loop_pieces = lay.pieces,
                                                !.peak_raw = peak,
                                                !.peak = peak_normalise(peak),
                                                !.normalised = bl.normalised + 1]
                      /\ pc' = "bl_mixed"
                      /\ UNCHANGED err
    /\ UNCHANGED <<outer, inputs, ret, calls, disk, djvars>>

\* loop_mix.py:641-657
BlSaveMix ==
    /\ pc = "bl_mixed"
    /\ \/ /\ disk' = disk \cup {bl_mix_path}
          /\ bl' = [bl EXCEPT !.builder_path = bl_mix_path]
          /\ Return(bl_mix_path)
          /\ UNCHANGED err
       \/ /\ disk' \in {disk, disk \cup {bl_mix_path}}
          /\ Raise("IoError", "mix")
          /\ UNCHANGED <<bl, ret>>
    /\ UNCHANGED <<outer, inputs, calls, djvars>>

-----------------------------------------------------------------------------
(* Mixes running side by side.  A job is one call of make_transition or of  *)
(* build_loop_mix: started from the command line with any output directory, *)
(* or by the job server (server.py:196-234), which calls make_transition    *)
(* with the one output directory OUTPUT_DIR/many_transitions_work.  A path  *)
(* is <<directory, subdirectory, song, file>>; fs holds the stem files      *)
(* under <output_dir>/stems/<slot>/htdemucs/<song>/, each "partial" from    *)
(* the moment the separator creates it until it has written it out, then    *)
(* "complete".                                                              *)

\* loop_mix.py:79
_STEM_FILES == <<"bass.wav", "drums.wav", "vocals.wav", "other.wav">>

NoJobs == << >>
NoFiles == << >>

Slot(k) == IF k = 1 THEN "song1" ELSE "song2"

StemPath(out_dir, slot, song, file) == <<out_dir, slot, song, file>>

\* os.path.exists on every stem file of the set (loop_mix.py:97)
HasAllStems(out_dir, slot, song) ==
    \A i \in 1..Len(_STEM_FILES) :
        StemPath(out_dir, slot, song, _STEM_FILES[i]) \in DOMAIN fs

\* loop_mix.py:84-92: the requested slot directory, then its siblings
candidates(out_dir, slot) ==
    LET sibling == IF slot = "song1" THEN "song2" ELSE "song1"
    IN  IF \E q \in DOMAIN fs : q[1] = out_dir /\ q[2] = sibling
        THEN <<slot, sibling>> ELSE <<slot>>

\* loop_mix.py:94-100: the first candidate holding all four files, or "none"
cache_lookup(out_dir, slot, song) ==
    LET cands == candidates(out_dir, slot)
        hits  == {i \in 1..Len(cands) : HasAllStems(out_dir, cands[i], song)}
    IN  IF hits = {} THEN "none"
        ELSE cands[CHOOSE i \in hits : \A k \in hits : i <= k]

\* get_chorus.py:143-148: chorus_snippet.wav next to the input file
snippet_path(in_dir) == <<in_dir, "", "", "chorus_snippet.wav">>

\* many_transitions.py:583-610, loop_mix.py:649-651: the files a builder saves
saved_files(fn, out_dir, songs) ==
    IF fn = "build_loop_mix"
    THEN {<<out_dir, "mixes", songs[1] \o "_" \o songs[2], "loop_mix.wav">>}
    ELSE {<<out_dir, "mixes", songs[1] \o "_" \o songs[2], "mix.wav">>,
          <<out_dir, "song_1", "", "verse1.wav">>,
          <<out_dir, "song_1", "", "chorus1.wav">>,
          <<out_dir, "song_2", "", "chorus1.wav">>,
          <<out_dir, "song_2", "", "verse1.wav">>}

NewJob(via, fn, out_dir, songs) ==
    [via |-> via, fn |-> fn, out_dir |-> out_dir, in_dir |-> "uploads",
     songs |-> songs, pc |-> "analyse", slot |-> 1, sep |-> 0,
     cache_had |-> <<FALSE, FALSE>>, ran_sep |-> <<FALSE, FALSE>>,
     loaded_from |-> <<"none", "none">>, loaded_partial |-> FALSE,
     written |-> {}]

\* many_transitions.py:389-398, loop_mix.py:421-431: the analysers; find_chorus
\* leaves its snippet in the input directory
JobAnalyse ==
    \E j \in DOMAIN jobs :
        /\ jobs[j].pc = "analyse"
        /\ jobs' = [jobs EXCEPT ![j].pc = "split",
                                ![j].written = @ \cup {snippet_path(jobs[j].in_dir)}]
        /\ UNCHANGED <<fs, cli, inputs, pc, err, ret, calls, disk, djvars, bl>>

\* Entry of the stem loader for the job's current slot.  _split_stems_4
\* (loop_mix.py:77-113) looks the track up and runs the separator only on a
\* miss; _split_stems (many_transitions.py:168-180) runs it always.
\* cache_had records what a lookup finds at this moment.
JobSplitStems ==
    \E j \in DOMAIN jobs :
        LET job  == jobs[j]
            slot == Slot(job.slot)
            song == job.songs[job.slot]
            hit  == cache_lookup(job.out_dir, slot, song)
        IN  /\ job.pc = "split"
            /\ IF job.fn = "build_loop_mix" /\ hit # "none"
               THEN jobs' = [jobs EXCEPT ![j].pc = "load",
                                         ![j].cache_had[job.slot] = TRUE,
                                         ![j].loaded_from[job.slot] = hit]
               ELSE jobs' = [jobs EXCEPT ![j].pc = "separate",
                                         ![j].sep = 0,
                                         ![j].cache_had[job.slot] = (hit # "none"),
                                         ![j].ran_sep[job.slot] = TRUE,
                                         ![j].loaded_from[job.slot] = slot]
            /\ UNCHANGED <<fs, cli, inputs, pc, err, ret, calls, disk, djvars, bl>>

\* python -m demucs --out <demucs_out_dir> <file> (many_transitions.py:177-180,
\* loop_mix.py:105-108): the subprocess creates each stem file in the
\* requested directory and then writes it out, one file after the other
JobSeparatorWrites ==
    \E j \in DOMAIN jobs :
        LET job  == jobs[j]
            i    == job.sep \div 2 + 1
            path == StemPath(job.out_dir, Slot(job.slot), job.songs[job.slot],
                             _STEM_FILES[i])
        IN  /\ job.pc = "separate" /\ job.sep < 2 * Len(_STEM_FILES)
            /\ fs' = (path :> (IF job.sep % 2 = 0 THEN "partial" ELSE "complete"))
                        @@ fs
            /\ jobs' = [jobs EXCEPT
                          ![j].sep = @ + 1,
                          ![j].written = @ \cup {path},
                          ![j].pc = IF job.sep + 1 = 2 * Len(_STEM_FILES)
                                    THEN "load" ELSE "separate"]
            /\ UNCHANGED <<cli, inputs, pc, err, ret, calls, disk, djvars, bl>>

\* librosa.load of the four stem files (many_transitions.py:185-188,
\* loop_mix.py:110-113), then the next slot or the build
JobLoad ==
    \E j \in DOMAIN jobs :
        LET job  == jobs[j]
            from == job.loaded_from[job.slot]
            song == job.songs[job.slot]
            set  == {StemPath(job.out_dir, from, song, _STEM_FILES[i]) :
                        i \in 1..Len(_STEM_FILES)}
        IN  /\ job.pc = "load"
            /\ set \subseteq DOMAIN fs
            /\ jobs' = [jobs EXCEPT
                          ![j].loaded_partial =
                              @ \/ \E q \in set : fs[q] = "partial",
                          ![j].slot = 2,
                          ![j].pc = IF job.slot = 1 THEN "split" ELSE "save"]
            /\ UNCHANGED <<fs, cli, inputs, pc, err, ret, calls, disk, djvars, bl>>

\* many_transitions.py:575-616, loop_mix.py:641-657
JobSave ==
    \E j \in DOMAIN jobs :
        /\ jobs[j].pc = "save"
        /\ jobs' = [jobs EXCEPT
                      ![j].pc = "done",
                      ![j].written = @ \cup saved_files(jobs[j].fn, jobs[j].out_dir,
                                                        jobs[j].songs)]
        /\ UNCHANGED <<fs, cli, inputs, pc, err, ret, calls, disk, djvars, bl>>

-----------------------------------------------------------------------------
(* Inputs                                                                  *)

Sharps == {"C", "C#", "D", "D#", "E", "F", "F#", "G", "G#", "A", "A#", "B"}
Flats  == {"Db", "Eb", "Fb", "Gb", "Ab", "Bb", "Cb"}
Scales == {"major", "minor"}

\* What the key extractor may hand back: the 24 sharp spellings, the flat
\* spellings, and a pitch and a scale that no table knows.
EssentiaOutputs == (Sharps \cup Flats \cup {"E#"}) \X (Scales \cup {"dorian"})
RecognisedSharp == Sharps \X Scales

CamelotPositions == (1..12) \X {"A", "B"}

\* BPM pairs: song 1 at the ends and the middle of [60, 200], song 2 at the
\* differences around each threshold (centi-BPM).
BpmDiffs == {0, 1, 200, 300, 499, 500, 501, 800, 999, 1000, 1001,
             1200, 1499, 1500, 1501, 1700}
BpmPairs ==
    {p \in {6000, 12800, 20000} \X (6000..20000) :
        \E d \in BpmDiffs : p[2] = p[1] + d \/ p[2] = p[1] - d}

\* Bounds of the track catalogue
MaxVerseSegs == 3
MaxGap == 1
MaxPhraseSamp == 8

\* BPM pairs of the full runs: equal, B slower and B faster by 3, 8, 12, 17
RunBpmPairs ==
    {<<9000, 9000>>, <<12800, 12500>>, <<12800, 12000>>, <<12000, 12800>>,
     <<12800, 14000>>, <<12800, 11100>>, <<12800, 14500>>}

\* Song 2 keys of the full runs against song 1 in C major (8B): G major (9B,
\* adjacent), A# minor (3A, incompatible), and an unknown pitch
RunKeys2 == {<<"G", "major">>, <<"A#", "minor">>, <<"E#", "major">>}

\* the songs of the second job: <<a, b>> is the first job's pair
JobSongs == {<<"a", "b">>, <<"a", "c">>, <<"c", "d">>}

NoTrack == [chorus |-> FALSE, chorusBars |-> 0, verseSegs |-> 0, intro |-> 0,
            gap |-> 0, lenBars |-> 0, sr |-> 0]

\* Song 1: no chorus found, or a short (6 bars) or a long (16 bars = 2
\* phrases at its own tempo) chorus 1; 0, 1 or 2 verse runs (the builders
\* read verse1_ts[0] and verse1_ts[1] only); an audio file that stops inside
\* chorus 1 or runs for 64 bars.
Tracks1 ==
    {[NoTrack EXCEPT !.lenBars = 64, !.sr = 8]}
    \cup [chorus : {TRUE}, chorusBars : {6, 16}, verseSegs : {0, 1, 2},
          intro : {0, 2}, gap : {0}, lenBars : {12, 64}, sr : {8, 12}]

\* Song 2: likewise, with 0..MaxGap bars between chorus 1 and verse 2.
Tracks2 ==
    {[NoTrack EXCEPT !.lenBars = 64, !.sr = 8]}
    \cup [chorus : {TRUE}, chorusBars : {8}, verseSegs : 0..MaxVerseSegs,
          intro : {0}, gap : 0..MaxGap, lenBars : {12, 64}, sr : {8}]

InitOutcome ==
    /\ err = NoErr /\ ret = NoPath /\ cli = NoCli
    /\ calls = << >> /\ disk = {}
    /\ key1 = NoKey /\ key2 = NoKey /\ key_ok = FALSE /\ mode = "none"
    /\ trans_sec = Zero

InitLocals ==
    /\ InitOutcome
    /\ jobs = NoJobs /\ fs = NoFiles
    /\ pc = "start" /\ bl = NoLocals

\* Key analysis over everything the extractor may return, one BPM pair.
InitKey ==
    /\ InitLocals
    /\ entry = "dj_mix"
    /\ bpm1 = 12800 /\ bpm2 = 12600
    /\ ess1 \in EssentiaOutputs /\ ess2 \in EssentiaOutputs
    /\ trk1 = NoTrack /\ trk2 = NoTrack

\* Mode selection over all 24 x 24 recognised keys and the BPM pairs.
InitSelect ==
    /\ InitLocals
    /\ entry = "dj_mix"
    /\ \E p \in BpmPairs : bpm1 = p[1] /\ bpm2 = p[2]
    /\ ess1 \in RecognisedSharp /\ ess2 \in RecognisedSharp
    /\ trk1 = NoTrack /\ trk2 = NoTrack

\* Full runs of dj_mix, and of either builder called on its own (their
\* command lines, the job server).  Only dj_mix analyses the keys, so the keys
\* of song 2 vary in its runs alone.
Init ==
    /\ err = NoErr /\ ret = NoPath /\ calls = << >> /\ disk = {}
    /\ cli = NoCli /\ jobs = NoJobs /\ fs = NoFiles
    /\ key1 = NoKey /\ key2 = NoKey /\ key_ok = FALSE /\ mode = "none"
    /\ trans_sec = Zero /\ bl = NoLocals
    /\ entry \in {"dj_mix", "make_transition", "build_loop_mix"}
    /\ pc = (IF entry = "dj_mix" THEN "start"
             ELSE IF entry = "make_transition" THEN "mt_start" ELSE "bl_start")
    /\ \E p \in RunBpmPairs : bpm1 = p[1] /\ bpm2 = p[2]
    /\ ess1 = <<"C", "major">>
    /\ ess2 \in (IF entry = "dj_mix" THEN RunKeys2 ELSE {<<"G", "major">>})
    /\ trk1 \in Tracks1 /\ trk2 \in Tracks2

\* Phase A of one builder for one phrase length, sample by sample.
InitFade ==
    /\ InitOutcome
    /\ jobs = NoJobs /\ fs = NoFiles
    /\ entry = "make_transition" /\ pc = "mt_mixed"
    /\ bpm1 = 12800 /\ bpm2 = 12600
    /\ ess1 = <<"C", "major">> /\ ess2 = <<"G", "major">>
    /\ trk1 = NoTrack /\ trk2 = NoTrack
    /\ \E tight \in BOOLEAN, use_fallback \in BOOLEAN, n \in 1..MaxPhraseSamp :
          bl = [NoLocals EXCEPT !.fn = "make_transition",
                                !.tight = tight,
                                !.use_fallback = use_fallback,
                                !.mix = mt_builder(tight, use_fallback),
                                !.phrase_samples = n]

NextFade == PhaseASample

\* Two mixes side by side: both from the job server, or both from a command
\* line with the same or with different output directories; the second mix
\* on the same songs, on one shared song, or on other songs; the stems of
\* song "a" possibly left complete by an earlier mix of the first output
\* directory, under either slot.
JobConfigs ==
    {<<via, f1, f2, d2, songs2>> \in
        {"server", "cli"} \X {"make_transition", "build_loop_mix"}
            \X {"make_transition", "build_loop_mix"}
            \X {"output", "output2"} \X JobSongs :
        via = "server" =>
            (f1 = "make_transition" /\ f2 = "make_transition" /\ d2 = "output")}

InitJobs ==
    /\ InitOutcome
    /\ entry = "jobs" /\ pc = "jobs" /\ bl = NoLocals
    /\ bpm1 = 12800 /\ bpm2 = 12600
    /\ ess1 = <<"C", "major">> /\ ess2 = <<"G", "major">>
    /\ trk1 = NoTrack /\ trk2 = NoTrack
    /\ \E c \in JobConfigs, pre \in {"none", "song1", "song2"} :
          /\ jobs = <<NewJob(c[1], c[2],
                             IF c[1] = "server" THEN "many_transitions_work"
                             ELSE "output", <<"a", "b">>),
                      NewJob(c[1], c[3],
                             IF c[1] = "server" THEN "many_transitions_work"
                             ELSE c[4], c[5])>>
          /\ fs = IF pre = "none" THEN NoFiles
                  ELSE [q \in {StemPath(jobs[1].out_dir, pre, "a", _STEM_FILES[i]) :
                                  i \in 1..Len(_STEM_FILES)} |-> "complete"]

NextJobs == JobAnalyse \/ JobSplitStems \/ JobSeparatorWrites \/ JobLoad \/ JobSave

NextSelect == DjAnalyse \/ DjCompare \/ DjPickMode

Next ==
    \/ DjAnalyse \/ DjCompare \/ DjPickMode \/ DjTimestamp \/ DjDispatch
    \/ MtAnalyse \/ MtValidate \/ MtGeometry \/ MtSplitStems \/ MtStretch
    \/ MtGuard \/ MtBuild \/ MtSaveMix \/ MtSaveRefs
    \/ BlAnalyse \/ BlValidate \/ BlSplitStems \/ BlStretch \/ BlBuild
    \/ BlSaveMix
    \/ DjRename \/ CliMain

SpecJobs == InitJobs /\ [][NextJobs]_vars
SpecFade == InitFade /\ [][NextFade]_vars

\* Each builder's mix played through its transition, from the last sample
\* of the track-A prefix to the first sample of the track-B tail.
InitPlay ==
    /\ InitOutcome
    /\ jobs = NoJobs /\ fs = NoFiles
    /\ entry = "make_transition" /\ pc = "mt_mixed"
    /\ bpm1 = 12800 /\ bpm2 = 12600
    /\ ess1 = <<"C", "major">> /\ ess2 = <<"G", "major">>
    /\ trk1 = NoTrack /\ trk2 = NoTrack
    /\ \E tight \in BOOLEAN, use_fallback \in BOOLEAN, n \in 1..MaxPhraseSamp :
          bl = [NoLocals EXCEPT !.fn = "make_transition",
                                !.tight = tight,
                                !.use_fallback = use_fallback,
                                !.mix = mt_builder(tight, use_fallback),
                                !.phrase_samples = n,
                                !.phase = "pre", !.sample_t = 0,
                                !.gains = play_gains(mt_builder(tight, use_fallback),
                                                     "pre", 0, n)]

NextPlay == PlaySample

SpecPlay == InitPlay /\ [][NextPlay]_vars

\* _loop_to_duration on its own: stems that are empty, shorter than a bar,
\* shorter and longer than the crossfade, with bars of 8, 300 and 512 samples
StemLens == {0, 3, 300, 511, 512, 600, 1100}
BarSamps == {8, 300, 512}
TargetSamps == {1, 20, 500, 1500}

InitLoop ==
    /\ InitOutcome
    /\ jobs = NoJobs /\ fs = NoFiles
    /\ entry = "_loop_to_duration" /\ pc = "ltd_start"
    /\ bpm1 = 12800 /\ bpm2 = 12600
    /\ ess1 = <<"C", "major">> /\ ess2 = <<"G", "major">>
    /\ trk1 = NoTrack /\ trk2 = NoTrack
    /\ \E n \in StemLens, b \in BarSamps, t \in TargetSamps,
          p \in {"const", "step"} :
          bl = [NoLocals EXCEPT !.fn = "build_loop_mix",
                                !.ltd = [NoLtd EXCEPT !.pattern = p,
                                                      !.stem_n = n,
                                                      !.bar_samp = b,
                                                      !.target_samp = t]]

NextLoop == LoopToDuration \/ LoopBoundary

SpecLoop == InitLoop /\ [][NextLoop]_vars

\* The microtiming metric on its own: up to MaxOnsets onsets, in time order,
\* at multiples of 1/24 s up to MaxOnsetTick / 24 s, against the eighth-note
\* grid of 120 BPM (1/4 s) and of 90 BPM (1/3 s).
MaxOnsets == 3
MaxOnsetTick == 12

OnsetLists ==
    UNION {{q \in [1..n -> 0..MaxOnsetTick] : \A i \in 1..(n - 1) : q[i] < q[i + 1]} :
              n \in 0..MaxOnsets}

InitTiming ==
    /\ InitOutcome
    /\ jobs = NoJobs /\ fs = NoFiles
    /\ entry = "score_vocal_fit" /\ pc = "timing_start"
    /\ bpm1 \in {12000, 9000} /\ bpm2 = 12600
    /\ ess1 = <<"C", "major">> /\ ess2 = <<"G", "major">>
    /\ trk1 = NoTrack /\ trk2 = NoTrack
    /\ \E q \in OnsetLists :
          bl = [NoLocals EXCEPT !.fn = "build_loop_mix",
                                !.timing = [NoTiming EXCEPT
                                    !.onset_times = [i \in DOMAIN q |-> Rat(q[i], 24)],
                                    !.bpm = bpm1]]

NextTiming == MicroTiming

SpecTiming == InitTiming /\ [][NextTiming]_vars

\* The grouping loop on its own: every per-bar mask of min_analysable_bars
\* to MaxBars bars, for find_chorus and for find_verse, at 120 and 90 BPM.
MaxBars == 9

BarMasks == UNION {[1..n -> BOOLEAN] : n \in min_analysable_bars..MaxBars}

InitGroup ==
    /\ InitOutcome
    /\ jobs = NoJobs /\ fs = NoFiles
    /\ entry = "find_sections" /\ pc = "group_start"
    /\ bpm1 \in {12000, 9000} /\ bpm2 = 12600
    /\ ess1 = <<"C", "major">> /\ ess2 = <<"G", "major">>
    /\ trk1 = NoTrack /\ trk2 = NoTrack
    /\ \E mask \in BarMasks, fn \in {"find_chorus", "find_verse"} :
          bl = [NoLocals EXCEPT !.fn = fn,
                                !.group = [NoGroup EXCEPT !.fn = fn,
                                                          !.mask = mask,
                                                          !.bpm = bpm1]]

NextGroup == FindChorusGroup \/ FindVerseGroup

SpecGroup == InitGroup /\ [][NextGroup]_vars
SpecKey == InitKey /\ [][NextSelect]_vars
SpecSelect == InitSelect /\ [][NextSelect]_vars
Spec == Init /\ [][Next]_vars

-----------------------------------------------------------------------------
(* Properties                                                              *)

\* C1: for every BPM pair in [60, 200] and every pair of Camelot keys dj_mix
\* selects exactly one mode: "loop" iff the difference is at most 10 and the
\* keys are compatible, otherwise "tight" iff the difference is at most 5 or
\* (keys compatible and difference at most 15), otherwise "loose".
C1_ModeSelection ==
    pc = "picked" =>
        LET diff       == Abs(bpm1 - bpm2)
            compatible ==
                \/ key1 = key2
                \/ key1[2] = key2[2] /\ Abs(key1[1] - key2[1]) \in {1, 11}
                \/ key1[1] = key2[1] /\ key1[2] # key2[2]
            loopCase   == diff <= 1000 /\ compatible
            tightCase  == ~loopCase /\ (diff <= 500 \/ (compatible /\ diff <= 1500))
            looseCase  == ~loopCase /\ ~tightCase
        IN  /\ bpm1 \in 6000..20000 /\ bpm2 \in 6000..20000
            /\ mode \in {"loop", "tight", "loose"}
            /\ (mode = "loop") <=> loopCase
            /\ (mode = "tight") <=> tightCase
            /\ (mode = "loose") <=> looseCase

\* a difference of 12 BPM with compatible keys has been given "tight"
C1_Witness ==
    /\ pc = "picked" /\ mode = "tight"
    /\ Abs(bpm1 - bpm2) = 1200 /\ key_ok

\* C3: keys_compatible is true exactly for identical positions, same-letter
\* positions whose numbers differ by 1 or 11 (ring neighbours, 12 next to 1)
\* and same-number positions of different letters; it is false across the
\* rings for different numbers, and it is symmetric.
C3_KeysCompatible ==
    pc \in {"compared", "picked"} =>
        LET n1 == key1[1]  l1 == key1[2]  n2 == key2[1]  l2 == key2[2]
            neighbours == (n1 % 12) + 1 = n2 \/ (n2 % 12) + 1 = n1
            expected ==
                \/ n1 = n2 /\ l1 = l2
                \/ l1 = l2 /\ Abs(n1 - n2) \in {1, 11}
                \/ n1 = n2 /\ l1 # l2
        IN  /\ key1 \in CamelotPositions /\ key2 \in CamelotPositions
            /\ key_ok = expected
            /\ (Abs(n1 - n2) \in {1, 11}) <=> neighbours
            /\ (l1 # l2 /\ neighbours) => ~key_ok
            /\ keys_compatible(key2, key1) = key_ok

\* 12B against 1B, the wrap of the ring, has been found compatible
C3_Witness ==
    /\ pc = "compared" /\ key1 = <<12, "B">> /\ key2 = <<1, "B">> /\ key_ok

\* C4: the key table is a bijection from the 24 (sharp pitch, mode) pairs onto
\* {1..12} x {A, B}, major on ring B and minor on ring A; the seven flat
\* spellings are looked up as their sharp equivalents; a (pitch, mode) not in
\* the table after that makes get_key raise instead of returning a value.
C4_KeyTable ==
    LET sharpOf == [Db |-> "C#", Eb |-> "D#", Fb |-> "E", Gb |-> "F#",
                    Ab |-> "G#", Bb |-> "A#", Cb |-> "B"]
        looked(e) == <<IF e[1] \in Flats THEN sharpOf[e[1]] ELSE e[1], e[2]>>
        known(e)  == looked(e) \in Sharps \X Scales
    IN  /\ DOMAIN CAMELOT = Sharps \X Scales
        /\ {CAMELOT[k] : k \in DOMAIN CAMELOT} = CamelotPositions
        /\ \A k \in DOMAIN CAMELOT :
              CAMELOT[k][2] = (IF k[2] = "major" THEN "B" ELSE "A")
        /\ (pc # "start" /\ err[1] # "FileNotFound") =>   \* get_key was called
              /\ known(ess1) => key1 = CAMELOT[looked(ess1)]
              /\ ~known(ess1) =>
                    /\ pc = "raised" /\ err[1] = "UnknownKey"
                    /\ key1 = NoKey /\ key2 = NoKey
              /\ known(ess1) /\ ~known(ess2) =>
                    /\ pc = "raised" /\ err[1] = "UnknownKey" /\ key2 = NoKey
              /\ known(ess1) /\ known(ess2) =>
                    /\ pc # "raised" /\ key2 = CAMELOT[looked(ess2)]
                    /\ (key1 = key2) <=> (looked(ess1) = looked(ess2))

\* Db major was looked up as C# major (3B), then an unknown pitch raised
C4_Witness ==
    /\ pc = "raised" /\ err[1] = "UnknownKey"
    /\ ess1 = <<"Db", "major">> /\ key1 = <<3, "B">>
    /\ ess2 = <<"E#", "minor">> /\ key2 = NoKey

\* C2: the mode dj_mix selected is the transition that is built: for "tight"
\* make_transition runs its tight or tight-fallback builder and never the
\* 2-phrase loose builder, for "loose" the loose builder; so the mode in the
\* output file name names the transition in the file.
C2_ModeIsBuilt ==
    (entry = "dj_mix" /\ bl.fn = "make_transition" /\ bl.mix # "none") =>
        /\ mode = "tight" =>
              bl.mix \in {"_build_tight_transition", "_build_tight_fallback"}
        /\ mode = "loose" => bl.mix = "_build_loose_transition"
        /\ (pc = "done" /\ ret = new_path(mt_mix_path, "tight", trans_sec))
              => bl.mix # "_build_loose_transition"

C6_FasterTrackGrid ==
    (bl.fn = "make_transition" /\ bl.stretch_rate # Zero) =>
        LET target_bpm == IF bpm1 >= bpm2 THEN bpm1 ELSE bpm2
        IN  /\ bl.low1.tempo = <<target_bpm, 1>>
            /\ bl.low2.tempo = <<target_bpm, 1>>
            /\ bl.phrase_duration[1] * target_bpm
                  = 32 * 60 * 100 * bl.phrase_duration[2]

C8_OneVerseInB ==
    LET finished == pc \in {"raised", "built", "done"}
        external == err[1] \in {"UnknownKey", "Separator", "IoError"}
        others   == /\ trk1.chorus /\ trk1.verseSegs >= 2 /\ trk1.lenBars = 64
                    /\ trk2.chorus /\ trk2.lenBars = 64
    IN  (trk2.verseSegs = 1 /\ others /\ finished /\ ~external) =>
            /\ bl.fn = "build_loop_mix" => err[1] = "Prerequisite"
            /\ (bl.fn = "make_transition" /\ bl.tight) =>
                  /\ err = NoErr /\ bl.mix # "none" /\ mt_mix_path \in disk

\* C9: dj_mix invokes exactly one builder per call (build_loop_mix for loop,
\* make_transition otherwise); when that builder raises a prerequisite error
\* dj_mix propagates it: no other builder runs, nothing is retried, and no
\* output file is renamed or returned.
C9_OneBuilder ==
    entry = "dj_mix" =>
        /\ Len(calls) <= 1
        /\ Len(calls) = 1 =>
              /\ mode \in {"loop", "tight", "loose"}
              /\ calls[1] = (IF mode = "loop" THEN "build_loop_mix"
                             ELSE "make_transition")
        /\ bl.fn # "none" => (Len(calls) = 1 /\ bl.fn = calls[1])
        /\ pc \in {"built", "done"} => Len(calls) = 1
        /\ (pc = "raised" /\ err[1] = "Prerequisite") =>
              /\ Len(calls) = 1
              /\ ret = NoPath
              /\ \A f \in disk : f[1] = "mixes" => f \in {mt_mix_path, bl_mix_path}
              /\ bl.mix = "none"

\* the loop builder, the only builder called, has raised for a missing
\* prerequisite and dj_mix has ended with that error
C9_Witness ==
    /\ entry = "dj_mix" /\ pc = "raised" /\ err[1] = "Prerequisite"
    /\ mode = "loop" /\ calls = <<"build_loop_mix">>
    /\ bl.fn = "build_loop_mix" /\ ret = NoPath

\* C10: when a mix fails after files have started to be written (a reference
\* section save failing after the mix WAV was written, or the final rename in
\* dj_mix failing), no partial output of that mix (the mix WAV under its
\* intermediate name, reference section files) is left on disk when the call
\* returns with the error.  The separated stems are not counted.
C10_NoPartialOutput ==
    (pc = "raised" /\ err \in {<<"IoError", "reference section">>,
                               <<"IoError", "rename">>}) =>
        \A f \in disk : f[1] \notin {"mixes", "song_1", "song_2"}

\* C11: the dj_mix command line exits 0 on success and, for every
\* prerequisite failure and every I/O failure (missing input, unwritable
\* output, failing separator subprocess), prints "Error: <message>" and exits
\* 1; no such failure leaves the command line as an uncaught exception.
C11_CliExitCodes ==
    (entry = "dj_mix" /\ cli # NoCli) =>
        /\ pc = "done" => cli.exit = 0
        /\ pc = "raised" =>
              /\ cli.exit = 1
              /\ cli.printed = <<"Error: ", err[2]>>
              /\ cli.uncaught = "none"

C14_FadeLaw ==
    bl.sample_t >= 0 => RAdd(bl.gains.low1, bl.gains.low2) = RInt(1)

\* C14 (amended): the ramps are linear over phrase_samp samples (fade_in(t) =
\* t / (phrase_samp - 1), fade_out(t) = 1 - fade_in(t); 0 and 1 when
\* phrase_samp = 1) and sum to 1 at every index.  In the tight and loose
\* builders track A's low band gets fade_out and track B's low band fade_in,
\* so their gains sum to 1; in the tight fallback track B's low band is off
\* during Phase A, and fade_out on track A's lows sums to 1 with fade_in on
\* track B's mids and highs.
C14_FadeLawAmended ==
    bl.sample_t >= 0 =>
        LET g == bl.gains
            n == bl.phrase_samples
            fade_in == IF n = 1 THEN Zero ELSE Rat(bl.sample_t, n - 1)
        IN  /\ g.low1 = RSub(RInt(1), fade_in)
            /\ bl.mix \in {"_build_tight_transition", "_build_loose_transition"} =>
                  /\ g.low2 = fade_in
                  /\ RAdd(g.low1, g.low2) = RInt(1)
                  /\ g.mid1 = RInt(1) /\ g.high1 = RInt(1)
            /\ bl.mix = "_build_tight_fallback" =>
                  /\ g.low2 = Zero
                  /\ g.mid2 = fade_in /\ g.high2 = fade_in
                  /\ RAdd(g.low1, g.mid2) = RInt(1)

\* a sample inside the fallback's Phase A, where track A's lows are partly
\* faded and track B's lows are still off
C14_Witness ==
    /\ bl.mix = "_build_tight_fallback" /\ bl.phrase_samples = 4
    /\ bl.sample_t = 2
    /\ bl.gains.low1 = <<1, 3>> /\ bl.gains.low2 = Zero
    /\ bl.gains.mid2 = <<2, 3>>

\* C15: after the final normalisation step of make_transition and
\* build_loop_mix the written buffer has max |sample| = 0.9 whenever the
\* assembled mix had a non-zero peak, and is the unchanged all-zero buffer
\* when the peak was 0; each builder normalises exactly once, after assembly
\* and before writing, and dj_mix does not normalise again.
C15_PeakNormalisation ==
    /\ bl.mix # "none" =>
          /\ RLt(Zero, bl.peak_raw) => bl.peak = Rat(9, 10)
          /\ bl.peak_raw = Zero => bl.peak = Zero
          /\ bl.normalised = 1
    /\ bl.mix = "none" =>
          /\ bl.normalised = 0
          /\ mt_mix_path \notin disk /\ bl_mix_path \notin disk
    /\ (pc = "done" /\ ret \in disk) => bl.normalised = 1

\* dj_mix has renamed a mix whose assembled peak was 3: it was scaled to 0.9
\* once, by the builder
C15_Witness ==
    /\ entry = "dj_mix" /\ pc = "done" /\ ret \in disk
    /\ bl.peak_raw = RInt(3) /\ bl.peak = Rat(9, 10) /\ bl.normalised = 1

\* C16: on success dj_mix returns the file {song1}_{song2}_{mode}_t{M}m{SS}s.wav
\* in the builder's mixes directory, mode being the selected mode, M =
\* floor(ts) div 60, SS = floor(ts) mod 60 as two digits, and ts taken from
\* track A: end of chorus 1 for loop, start of chorus 1 for tight, start of
\* verse 2 for loose; the builder's intermediate file no longer exists.
C16_OutputName ==
    (entry = "dj_mix" /\ pc = "done") =>
        LET chorus1 == find_chorus(trk1, bpm1)[1]
            verse1  == find_verse(trk1, bpm1)
            ts   == IF mode = "loop" THEN chorus1[2]
                    ELSE IF mode = "tight" THEN chorus1[1]
                    ELSE verse1[2][1]
            secs == Floor(ts)
            SS   == secs % 60
        IN  /\ mode \in {"loop", "tight", "loose"}
            /\ SS \in 0..59
            /\ ret = <<"mixes",
                       "song1_song2_" \o mode \o "_t" \o ToString(secs \div 60)
                           \o "m" \o ToString(SS \div 10) \o ToString(SS % 10)
                           \o "s.wav">>
            /\ ret \in disk
            /\ bl.builder_path \notin disk
            /\ bl.builder_path \in {mt_mix_path, bl_mix_path}
            /\ ret[1] = bl.builder_path[1]

\* a loop mix of a 90 BPM track whose chorus 1 ends at 64 s
C16_Witness ==
    /\ entry = "dj_mix" /\ pc = "done" /\ mode = "loop"
    /\ trans_sec = RInt(64)
    /\ ret = <<"mixes", "song1_song2_loop_t1m04s.wav">>

\* C17: for every strategy the core looks a track up in the stem cache (the
\* requested slot directory and its siblings) before the separator is
\* invoked, and the separator is invoked if and only if no candidate
\* directory holds all four stem files of the track; with a complete set the
\* separator is not run and the stems are loaded from that directory.
C17_CacheBeforeSeparator ==
    \A j \in DOMAIN jobs : \A k \in 1..2 :
        jobs[j].loaded_from[k] # "none" =>
            /\ jobs[j].ran_sep[k] <=> ~jobs[j].cache_had[k]
            /\ (jobs[j].cache_had[k] /\ jobs[j].fn = "build_loop_mix")
                  => ~jobs[j].ran_sep[k]

\* C18: with two mixes running side by side on the same track, a mix never
\* loads a stem set that another mix's separator run is still writing.
C18_NoPartialStems ==
    (\A k \in DOMAIN jobs : jobs[k].fn = "build_loop_mix") =>
        \A j \in DOMAIN jobs : ~jobs[j].loaded_partial

\* C19: when the job server runs two mix requests side by side, no file path
\* (stems, mix WAV, reference sections, chorus snippet) is written by both.
C19_OwnOutputDirectory ==
    \A j \in DOMAIN jobs : \A k \in DOMAIN jobs :
        (j # k /\ jobs[j].via = "server" /\ jobs[k].via = "server")
            => jobs[j].written \cap jobs[k].written = {}

\* C20: the vocal-fit score is informational only: when build_loop_mix has
\* scored the vocals and finished (or given up) the assembly, the mix it has
\* assembled is the one laid out from the tracks and their analyses alone,
\* whatever the five score values are (a final score below 0.5 and NaN
\* included), and no score value stops the build: the assembly is given up
\* exactly when the layout's shapes do not fit.  From then on the mix is
\* normalised once and written to the builder's path, whatever the score.
C20_ScoreInformational ==
    (bl.fn = "build_loop_mix" /\ bl.scores.verdict # "none") =>
        /\ bl.scores \in {score_vocal_fit(sc[1], sc[2], sc[3], sc[4]) :
                            sc \in ScoreInputs}
        /\ (bl.mix = "loop") <=> (err[1] # "Shape")
        /\ bl.mix = "loop" =>
              /\ bl.peak = peak_normalise(bl.peak_raw)
              /\ bl.normalised = 1
        /\ bl.builder_path # NoPath =>
              (bl.mix = "loop" /\ bl.builder_path = bl_mix_path)
        /\ (pc = "bl_mixed" \/ err[1] = "Shape") =>
              \A lay \in {bl_layout} :
                  /\ (bl.mix = "loop") <=> lay.ok
                  /\ bl.mix = "loop" => bl.loop_pieces = lay.pieces

\* a loop mix assembled and written although the final score is below 0.5
C20_Witness ==
    /\ bl.fn = "build_loop_mix"
    /\ bl.scores.final # NaN /\ bl.scores.final < 500
    /\ bl.scores.verdict = "weak fit - proceed with caution"
    /\ bl.mix = "loop" /\ LoopMixLen(bl.loop_pieces) > 0
    /\ bl.builder_path = bl_mix_path

\* C21: on the sample grid Phase A starts a whole number of phrases from its
\* anchor: in a regular tight mix trans_start = s1_c1_start
\* + (n_chorus_phrases - 2) * phrase_samp with n_chorus_phrases
\* = floor((s1_c1_end - s1_c1_start) / phrase_samp); in a loose mix trans_start
\* is a multiple of phrase_samp.
C21_PhraseGrid ==
    (bl.fn = "make_transition" /\ bl.mix # "none") =>
        /\ bl.mix = "_build_tight_transition" =>
              bl.trans_start = bl.s1_c1_start
                  + (((bl.s1_c1_end - bl.s1_c1_start) \div bl.phrase_samples) - 2)
                      * bl.phrase_samples
        /\ bl.mix = "_build_loose_transition" =>
              bl.trans_start % bl.phrase_samples = 0

C23_LooseBandSwap ==
    [][(bl.mix = "_build_loose_transition" /\ bl.phrase_samples >= 2) =>
        LET g    == bl.gains
            h    == bl'.gains
            n    == bl.phrase_samples
            t    == bl'.sample_t
            ramp == Rat(t, n - 1)
            step == Rat(1, n - 1)
            bands == {"low1", "mid1", "high1", "low2", "mid2", "high2"}
        IN  /\ bl'.phase = "A" =>
                  /\ h.low1 = RSub(RInt(1), ramp) /\ h.low2 = ramp
                  /\ h.mid1 = RInt(1) /\ h.high1 = RInt(1)
                  /\ h.mid2 = Zero /\ h.high2 = Zero
            /\ bl'.phase = "B" =>
                  /\ h.mid1 = RSub(RInt(1), ramp) /\ h.high1 = h.mid1
                  /\ h.mid2 = ramp /\ h.high2 = ramp
                  /\ h.low2 = RInt(1) /\ h.low1 = Zero
            /\ bl'.phase = "tail" =>
                  /\ bl.phase = "B" /\ bl.sample_t = n - 1
                  /\ g.low1 = Zero /\ g.mid1 = Zero /\ g.high1 = Zero
                  /\ g.low2 = RInt(1) /\ g.mid2 = RInt(1) /\ g.high2 = RInt(1)
            /\ \A b \in {"low1", "mid1", "high1"} :
                  RLe(h[b], g[b]) /\ RLe(RSub(g[b], h[b]), step)
            /\ \A b \in {"low2", "mid2", "high2"} :
                  RLe(g[b], h[b]) /\ RLe(RSub(h[b], g[b]), step)]_vars

\* the first sample of Phase B of a loose transition of 4-sample phrases:
\* track B's lows are in, its mids and highs are about to start
C23_Witness ==
    /\ bl.mix = "_build_loose_transition" /\ bl.phrase_samples = 4
    /\ bl.phase = "B" /\ bl.sample_t = 0
    /\ bl.gains.low1 = Zero /\ bl.gains.low2 = RInt(1)
    /\ bl.gains.mid1 = RInt(1) /\ bl.gains.mid2 = Zero

\* C24: _loop_to_duration returns exactly target_samp samples for every stem
\* length, every bar_samp >= 1 and every target_samp >= 1.
C24_LoopExactLength ==
    (pc = "ltd_done") => bl.ltd.out_n = bl.ltd.target_samp

\* C25: at every loop point k * seg_len inside the returned buffer the jump
\* |out[k * seg_len] - out[k * seg_len - 1]| is at most 2 * max|segment| / 512
\* (stated for stems of at least one bar, whose segment is whole bars).
C25_LoopContinuity ==
    (bl.ltd.boundary >= 0 /\ bl.ltd.stem_n >= bl.ltd.bar_samp) =>
        RLe(bl.ltd.jump, Rat(2 * bl.ltd.max_abs, _XFADE_SAMP))

C27_MicrotimingOffsets ==
    pc = "timing_done" =>
        LET a      == bl.timing
            subdiv == subdiv_of(a.bpm)
            half   == RDiv(subdiv, RInt(2))
        IN  /\ Len(a.onset_times) < 2 <=> a.score = "0.0"
            /\ Len(a.onset_times) >= 2 =>
                  /\ Len(a.offsets) = Len(a.onset_times)
                  /\ \A i \in 1..Len(a.offsets) :
                        /\ RLe(RSub(Zero, half), a.offsets[i])
                        /\ RLe(a.offsets[i], half)
                        /\ RMod(RSub(a.onset_times[i], a.offsets[i]), subdiv) = Zero
                        /\ RMod(a.onset_times[i], subdiv) = Zero =>
                              a.offsets[i] = Zero

\* C28: track B's content is capped at the end of its second verse: no
\* sample of track B with index >= s2_v2_end is in a mix.  make_transition
\* reads track B from s2_start through the phases (k * phrase_samp samples)
\* and the tail; build_loop_mix reads the chorus vocals from s2_c1_start, and
\* the transition and the tail from the verse after the chorus.
C28_TrackBCapped ==
    /\ (bl.fn = "make_transition" /\ bl.mix # "none") =>
          LET read == bl.pieces.phase_a + bl.pieces.phase_b + bl.pieces.s2_after
          IN  read > 0 => bl.s2_start + read <= bl.s2_v2_end
    /\ (bl.fn = "build_loop_mix" /\ bl.mix = "loop") =>
          LET vox   == SliceLen(bl.low2.n, bl.s2_start,
                                bl.s2_start + bl.d2_chorus_samp)
              trans == SliceLen(bl.low2.n, bl.s2_verse_ach_start,
                                bl.s2_verse_ach_start + bl.trans_fade_samp)
              read  == trans + bl.loop_pieces.s2_tail
          IN  /\ vox > 0 => bl.s2_start + vox <= bl.s2_v2_end
              /\ read > 0 => bl.s2_verse_ach_start + read <= bl.s2_v2_end

C30_SegmentGrouping ==
    pc = "group_done" =>
        LET g    == bl.group
            n    == Len(g.mask)
            bd   == bar_duration(g.bpm)
            out  == g.out
            runs == {r \in (0..(n - 1)) \X (0..(n - 1)) :
                        /\ r[1] <= r[2]
                        /\ \A i \in r[1]..r[2] : g.mask[i + 1]
                        /\ r[1] = 0 \/ ~g.mask[r[1]]
                        /\ r[2] = n - 1 \/ ~g.mask[r[2] + 2]
                        /\ r[2] - r[1] + 1 >= 4}
        IN  IF g.fn = "find_verse" /\ Cardinality(runs) < 2
            THEN out = << >>
            ELSE /\ Len(out) = Cardinality(runs)
                 /\ \A r \in runs : \E k \in 1..Len(out) :
                       out[k] = <<RMul(RInt(r[1]), bd), RMul(RInt(r[2] + 1), bd)>>
                 /\ \A k \in 1..Len(out) : RLt(out[k][1], out[k][2])
                 /\ \A k \in 1..(Len(out) - 1) : RLe(out[k][2], out[k + 1][1])

\* two runs found by find_verse, the second one reaching the last bar
C30_Witness ==
    /\ pc = "group_done"
    /\ bl.group.fn = "find_verse"
    /\ Len(bl.group.out) = 2
    /\ bl.group.mask[Len(bl.group.mask)]

====
